---- MODULE Spec2Model ----
(***************************************************************************)
(* Credential issuance and verification of the delta-sharing server:       *)
(* the HMAC token codec (server/utilities/token.rs), the lazily            *)
(* initialised configuration (config.rs), the expiry arithmetic of the     *)
(* token codec, of the profile service (server/services/profile.rs) and    *)
(* of the claims helper (utils/jwt.rs), the profiles and the bearer        *)
(* tokens checked by as_sharing (server/middlewares/auth.rs) and by the    *)
(* Claims extractor (utils/jwt.rs), the resolution of object-store URLs    *)
(* (server/utilities/signed_url.rs), and the routers in front of the       *)
(* account and token tables: login (server/routers/catalog/login.rs) and   *)
(* profile issuance (server/routers/catalog/profile.rs).                   *)
(*                                                                         *)
(* Strings are sequences of bytes (Rust Strings are UTF-8 byte strings;    *)
(* every string of the model is ASCII), so that hex encoding, hex          *)
(* decoding, case folding and splitting at '.' are computed as the code    *)
(* computes them.  Results are records: [ok |-> TRUE, val |-> v] for Ok(v) *)
(* and [ok |-> FALSE, err |-> e] for Err(e); a panic is the error "panic". *)
(***************************************************************************)
EXTENDS Integers, Sequences, FiniteSets, TLC

VARIABLES
    now,        \* the system clock: [secs, ms] since the epoch (secs may be < 0)
    cfg,        \* the configuration read by config::fetch:
                \* [secret, hasher, server_addr, jwt_secret]
    SECRET,     \* config::SECRET, a Lazy cell: Uninit or the secret string
    HASHER,     \* config::HASHER, a Lazy cell: Uninit or a Hasher
    signed,     \* the latest Utility::sign call: [tid, ttl, hasher, at, res], or None
    verified,   \* the latest Utility::verify call: [token, hasher, at, res], or None
    call,       \* the latest call of a pure function: [fn, arg, res], or None
    issued,     \* the latest Service::issue call:
                \* [id, provider, recipient, ttl, at, res], or None
    request,    \* the latest request a middleware or extractor handled, with
                \* its outcome, or None
    accounts,   \* the rows of the account table
    tokens,     \* the rows of the token table
    threads     \* the request threads in flight: for each its position and
                \* what it has read so far, or None

vars == <<now, cfg, SECRET, HASHER, signed, verified, call, issued, request,
          accounts, tokens, threads>>

None == [none |-> TRUE]
\* a Lazy cell: empty, or filled with a value
Uninit == [set |-> FALSE]
Filled(v) == [set |-> TRUE, val |-> v]

Ok(v) == [ok |-> TRUE, val |-> v]
Err(e) == [ok |-> FALSE, err |-> e]

(***************************************************************************)
(* Bounds of the model.                                                    *)
(***************************************************************************)
\* the clock of the token specification runs over 0..MaxClock seconds
MaxClock == 2
\* the largest ttl the token specification signs with (26 = 0x1a: the expiry
\* then has two hex digits, one of them a letter)
MaxTtl == 26
\* the integer types are scaled: i64 is modelled with IntBits bits, u64 with
\* IntBits bits unsigned
IntBits == 20
\* the expiry specification draws ttl and clock readings from the values
\* within EdgeSpan of each boundary of the integer types
EdgeSpan == 4

(***************************************************************************)
(* Bytes, ASCII and hex.                                                   *)
(***************************************************************************)
Dot == <<46>>                       \* "."

RECURSIVE Pow2(_)
Pow2(n) == IF n = 0 THEN 1 ELSE 2 * Pow2(n - 1)

I64Max == Pow2(IntBits - 1) - 1
I64Min == 0 - Pow2(IntBits - 1)
U64Max == Pow2(IntBits) - 1

\* the lowercase hex digit of a nibble: '0'..'9' are 48..57, 'a'..'f' 97..102
HexDigit(n) == IF n < 10 THEN 48 + n ELSE 87 + n

\* hex::encode: two lowercase digits per byte
RECURSIVE HexEncode(_)
HexEncode(bytes) ==
    IF bytes = <<>> THEN <<>>
    ELSE <<HexDigit(Head(bytes) \div 16), HexDigit(Head(bytes) % 16)>>
            \o HexEncode(Tail(bytes))

\* the value of a hex digit, upper or lower case; -1 for any other byte
HexVal(c) ==
    IF c >= 48 /\ c <= 57 THEN c - 48
    ELSE IF c >= 97 /\ c <= 102 THEN c - 87
    ELSE IF c >= 65 /\ c <= 70 THEN c - 55
    ELSE -1

RECURSIVE HexBytes(_)
HexBytes(s) ==
    IF s = <<>> THEN <<>>
    ELSE <<16 * HexVal(s[1]) + HexVal(s[2])>> \o HexBytes(SubSeq(s, 3, Len(s)))

\* hex::decode: an error on an odd length or on a byte that is no hex digit
HexDecode(s) ==
    IF Len(s) % 2 # 0 THEN Err("OddLength")
    ELSE IF \E i \in 1..Len(s) : HexVal(s[i]) = -1 THEN Err("InvalidHexCharacter")
    ELSE Ok(HexBytes(s))

\* format!("{:x}", n) of a non-negative integer: lowercase hex, no leading zeros
RECURSIVE LowerHex(_)
LowerHex(n) ==
    IF n < 16 THEN <<HexDigit(n)>>
    ELSE LowerHex(n \div 16) \o <<HexDigit(n % 16)>>

\* the number a string of hex digits denotes
RECURSIVE ParseHex(_)
ParseHex(s) ==
    IF s = <<>> THEN 0
    ELSE 16 * ParseHex(SubSeq(s, 1, Len(s) - 1)) + HexVal(s[Len(s)])

\* format!("{}", n) of a non-negative integer
RECURSIVE Decimal(_)
Decimal(n) ==
    IF n < 10 THEN <<48 + n>>
    ELSE Decimal(n \div 10) \o <<48 + (n % 10)>>

\* u8::to_ascii_lowercase
ToAsciiLower(c) == IF c >= 65 /\ c <= 90 THEN c + 32 ELSE c

AsciiLower(s) == [i \in 1..Len(s) |-> ToAsciiLower(s[i])]

\* the positions of '.' in s
DotsOf(s) == {i \in 1..Len(s) : s[i] = 46}

\* the larger of a non-empty finite set of integers
MaxOf(S) == CHOOSE x \in S : \A y \in S : y <= x

(***************************************************************************)
(* Hasher and its derived FromStr (strum EnumString, ascii_case_insensitive)*)
(***************************************************************************)
Hashers == {"Sha224", "Sha256", "Sha384", "Sha512"}

\* the variant names as byte strings
VariantName(h) ==
    CASE h = "Sha224" -> <<83, 104, 97, 50, 50, 52>>
      [] h = "Sha256" -> <<83, 104, 97, 50, 53, 54>>
      [] h = "Sha384" -> <<83, 104, 97, 51, 56, 52>>
      [] h = "Sha512" -> <<83, 104, 97, 53, 49, 50>>

\* HasherFromStr with a fault: the comparison is case-sensitive
HasherFromStrExact(s) ==
    IF \E h \in Hashers : s = VariantName(h)
    THEN Ok(CHOOSE h \in Hashers : s = VariantName(h))
    ELSE Err("VariantNotFound")

\* Hasher::from_str: the variant whose name equals s ignoring ASCII case
HasherFromStr(s) ==
    IF \E h \in Hashers : AsciiLower(s) = AsciiLower(VariantName(h))
    THEN Ok(CHOOSE h \in Hashers : AsciiLower(s) = AsciiLower(VariantName(h)))
    ELSE Err("VariantNotFound")

\* Result::unwrap_or
UnwrapOr(r, default) == IF r.ok THEN r.val ELSE default

(***************************************************************************)
(* The Lazy cells of config.rs.  Dereferencing a cell runs its initialiser *)
(* when the cell is empty and stores the value; a filled cell is returned  *)
(* as it is.                                                               *)
(***************************************************************************)
SecretInit == cfg.secret

HasherInit == UnwrapOr(HasherFromStr(cfg.hasher), "Sha256")

\* the value a dereference of the cell yields in this state
Force(cell, init) == IF cell.set THEN cell.val ELSE init

SecretBytes == Force(SECRET, SecretInit)

(***************************************************************************)
(* HMAC.  Hmac<ShaN> is modelled as an ideal MAC: a digest of the width of *)
(* the hash that is different for different (hash, key, message), as long  *)
(* as the key and the message fit the digest (they do within the bounds).  *)
(***************************************************************************)
\* the digest widths in bytes of SHA-224, SHA-256, SHA-384 and SHA-512
DigestLen(h) ==
    CASE h = "Sha224" -> 28
      [] h = "Sha256" -> 32
      [] h = "Sha384" -> 48
      [] h = "Sha512" -> 64

\* the hashes are different functions: a byte of the digest names the hash
HasherTag(h) ==
    CASE h = "Sha224" -> 1
      [] h = "Sha256" -> 2
      [] h = "Sha384" -> 3
      [] h = "Sha512" -> 4

PadTo(bytes, n) ==
    [i \in 1..n |-> IF i <= Len(bytes) THEN bytes[i] ELSE 0]

\* Mac with a fault: only the bytes before the first dot are fed to the MAC
MacUpToDot(h, key, msg) ==
    LET head == IF DotsOf(msg) = {} THEN msg
                ELSE SubSeq(msg, 1, (CHOOSE i \in DotsOf(msg) :
                                         \A j \in DotsOf(msg) : i <= j) - 1)
    IN  PadTo(<<HasherTag(h), Len(key)>> \o key \o <<Len(head)>> \o head,
              DigestLen(h))

\* mac.update(msg); mac.finalize().into_bytes() of Hmac<h> keyed with key
Mac(h, key, msg) ==
    PadTo(<<HasherTag(h), Len(key)>> \o key \o <<Len(msg)>> \o msg, DigestLen(h))

(***************************************************************************)
(* Integer conversions and std::time at the scaled width.                  *)
(***************************************************************************)
\* u64::try_from(i64)
U64TryFromI64(n) == IF n < 0 THEN Err("TryFromIntError") ELSE Ok(n)

\* i64::try_from of an unsigned value
I64TryFromUnsigned(n) == IF n > I64Max THEN Err("TryFromIntError") ELSE Ok(n)

\* SystemTime::now().duration_since(UNIX_EPOCH): an error before the epoch
DurationSinceEpoch(t) ==
    IF t.secs < 0 THEN Err("SystemTimeError") ELSE Ok([secs |-> t.secs, ms |-> t.ms])

\* Duration::from_secs
DurationFromSecs(n) == [secs |-> n, ms |-> 0]

\* Duration + Duration: checked_add(..).expect("overflow when adding durations")
DurationAdd(a, b) ==
    LET carry == (a.ms + b.ms) \div 1000
        secs  == a.secs + b.secs + carry
    IN  IF secs > U64Max THEN Err("panic")
        ELSE Ok([secs |-> secs, ms |-> (a.ms + b.ms) % 1000])

(***************************************************************************)
(* server/utilities/token.rs                                               *)
(***************************************************************************)
\* str::rsplitn(2, '.'): the pieces from the right, at most two
Rsplitn2(s) ==
    IF DotsOf(s) = {} THEN <<s>>
    ELSE LET d == MaxOf(DotsOf(s))
         IN  <<SubSeq(s, d + 1, Len(s)), SubSeq(s, 1, d - 1)>>

\* str::splitn(2, '.'): the pieces from the left, at most two
Splitn2(s) ==
    IF DotsOf(s) = {} THEN <<s>>
    ELSE LET d == CHOOSE i \in DotsOf(s) : \A j \in DotsOf(s) : i <= j
         IN  <<SubSeq(s, 1, d - 1), SubSeq(s, d + 1, Len(s))>>

\* ExpectTwo with a fault: a missing second item is taken as empty
ExpectOneOrTwo(pieces) ==
    IF Len(pieces) = 2 THEN Ok(pieces)
    ELSE IF Len(pieces) = 1 THEN Ok(<<pieces[1], <<>>>>)
    ELSE Err("failed to parse token")

\* expect_two!: the iterator yields exactly two items
ExpectTwo(pieces) == IF Len(pieces) = 2 THEN Ok(pieces) ELSE Err("failed to parse token")

\* anyhow's .context(msg)?: an error is replaced by msg; a panic is not a
\* Result and unwinds through the caller
Context(r, msg) == IF r.ok \/ r = Err("panic") THEN r ELSE Err(msg)

\* NewExp with a fault: the ttl is cast (ttl as u64) instead of converted
NewExpCastTtl(ttl) ==
    LET since == DurationSinceEpoch(now)
    IN  IF ~since.ok THEN Err("failed to create current system time")
        ELSE LET sum == DurationAdd(since.val, DurationFromSecs(ttl % (U64Max + 1)))
             IN  IF ~sum.ok THEN sum
                 ELSE IF ~I64TryFromUnsigned(sum.val.secs).ok
                      THEN Err("failed to convert u128 expiration seconds to i64")
                      ELSE Ok(sum.val.secs)

\* new_exp of token.rs, reading the clock
NewExp(ttl) ==
    LET conv == U64TryFromI64(ttl)
    IN  IF ~conv.ok THEN Err("failed to convert i64 ttl to u64")
        ELSE LET since == DurationSinceEpoch(now)
             IN  IF ~since.ok THEN Err("failed to create current system time")
                 ELSE LET sum == DurationAdd(since.val, DurationFromSecs(conv.val))
                      IN  IF ~sum.ok THEN sum
                          ELSE IF ~I64TryFromUnsigned(sum.val.secs).ok
                               THEN Err("failed to convert u128 expiration seconds to i64")
                               ELSE Ok(sum.val.secs)

\* format!("{}.{:x}", hex::encode(&tid), &exp): the bytes the MAC is taken over
BodyOf(tid, exp) == HexEncode(tid) \o Dot \o LowerHex(exp)

\* Sign with a fault: the MAC is taken over the token id alone
SignTidOnly(tid, ttl, hasher) ==
    LET exp == Context(NewExp(ttl), "failed to create expiry time in hexadicimal format")
    IN  IF ~exp.ok THEN exp
        ELSE Ok(BodyOf(tid, exp.val) \o Dot
                    \o HexEncode(Mac(hasher, SecretBytes, HexEncode(tid))))

\* Sign with a fault: the token is formatted with {} instead of {:x} for the
\* expiry, the MAC still being taken over the hex form
SignDecimalExp(tid, ttl, hasher) ==
    LET exp == Context(NewExp(ttl), "failed to create expiry time in hexadicimal format")
    IN  IF ~exp.ok THEN exp
        ELSE Ok(HexEncode(tid) \o Dot \o Decimal(exp.val) \o Dot
                    \o HexEncode(Mac(hasher, SecretBytes, BodyOf(tid, exp.val))))

\* Utility::sign: the four arms differ in the hash only
Sign(tid, ttl, hasher) ==
    LET exp == Context(NewExp(ttl), "failed to create expiry time in hexadicimal format")
    IN  IF ~exp.ok THEN exp
        ELSE LET sig == Mac(hasher, SecretBytes, BodyOf(tid, exp.val))
             IN  Ok(HexEncode(tid) \o Dot \o LowerHex(exp.val) \o Dot \o HexEncode(sig))

\* VerifyParts with a fault: the signature is compared as a hex string with
\* the encoded MAC instead of being decoded
VerifyPartsCompareHex(sig, body, hasher) ==
    IF sig = HexEncode(Mac(hasher, SecretBytes, body)) THEN Ok(<<>>) ELSE Err("MacError")

\* Utility::verify after the split, under the hash of the arm taken
VerifyParts(sig, body, hasher) ==
    LET dec == HexDecode(sig)
    IN  IF ~dec.ok THEN Err("failed to decode HMAC signature")
        ELSE IF dec.val = Mac(hasher, SecretBytes, body) THEN Ok(<<>>)
        ELSE Err("MacError")

\* Verify with a fault: every arm uses HmacSha256
VerifySha256Only(token, hasher) ==
    LET two == ExpectTwo(Rsplitn2(token))
    IN  IF ~two.ok THEN two ELSE VerifyParts(two.val[1], two.val[2], "Sha256")

\* Verify with a fault: the signature is decoded but never compared
VerifyNoCompare(token, hasher) ==
    LET two == ExpectTwo(Rsplitn2(token))
    IN  IF ~two.ok THEN two
        ELSE IF ~HexDecode(two.val[1]).ok THEN Err("failed to decode HMAC signature")
        ELSE Ok(<<>>)

\* Verify with a fault: a token whose expiry segment is in the past is refused
VerifyExpiring(token, hasher) ==
    LET two == ExpectTwo(Rsplitn2(token))
    IN  IF ~two.ok THEN two
        ELSE LET res == VerifyParts(two.val[1], two.val[2], hasher)
                 exp == Rsplitn2(two.val[2])[1]
             IN  IF res.ok /\ (\A i \in 1..Len(exp) : HexVal(exp[i]) # -1)
                        /\ ParseHex(exp) < now.secs
                 THEN Err("expired")
                 ELSE res

\* Utility::verify
Verify(token, hasher) ==
    LET two == ExpectTwo(Rsplitn2(token))
    IN  IF ~two.ok THEN two ELSE VerifyParts(two.val[1], two.val[2], hasher)

\* tamper of the tests: the token id segment replaced by hex::encode(tid)
Tamper(token, tid) ==
    LET one == ExpectTwo(Splitn2(token))
    IN  IF ~one.ok THEN one
        ELSE LET two == ExpectTwo(Splitn2(one.val[2]))
             IN  IF ~two.ok THEN two
                 ELSE Ok(HexEncode(tid) \o Dot \o two.val[1] \o Dot \o two.val[2])

(***************************************************************************)
(* The token specification: one process signs and verifies tokens while    *)
(* the clock advances.  Verify is handed the signed token, tokens derived  *)
(* from it and arbitrary strings, as a request may carry any string.       *)
(***************************************************************************)
Tids == {<<97>>, <<98, 49>>}                        \* "a", "b1"

Secrets == {<<107>>, <<75, 50>>}                    \* "k", "K2"

TtlInputs == {-1, 0, MaxTtl}

Sha256Name == <<115, 104, 97, 50, 53, 54>>          \* "sha256"

ServerAddr == <<104, 116, 116, 112, 115, 58, 47, 47, 104>>  \* "https://h"

JwtSecret == <<106>>                                \* "j"

\* u8::to_ascii_uppercase, for the upper-case spelling of a hex string
AsciiUpper(s) == [i \in 1..Len(s) |-> IF s[i] >= 97 /\ s[i] <= 122 THEN s[i] - 32 ELSE s[i]]

\* a body with the hex MAC of that body under hash h and key k appended
MacToken(body, h, k) == body \o Dot \o HexEncode(Mac(h, k, body))

\* bodies with no dot ("6162"), with one ("61.1", a well-formed body), with
\* two ("61.1.0"), and the empty body
RawBodies == {<<54, 49, 54, 50>>, <<54, 49, 46, 49>>, <<54, 49, 46, 49, 46, 48>>, <<>>}

\* a hash other than h
OtherHasher(h) == IF h = "Sha256" THEN "Sha384" ELSE "Sha256"

\* strings a request may carry that sign never returned in this run, for a
\* verification under hash h: malformed strings, and bodies carrying their
\* MAC under h, under another hash and under another key
RawTokens(h) ==
    { <<>>,                                         \* ""
      <<54, 49, 54, 50>>,                           \* "6162"
      Dot,                                          \* "."
      <<54, 49, 54, 50, 46, 48, 48>>,               \* "6162.00"
      <<54, 49, 46, 49, 46, 48, 48>>,               \* "61.1.00"
      <<54, 49, 46, 49, 46, 122, 122>>,             \* "61.1.zz"
      <<54, 49, 46, 49, 46, 97, 98, 99>> }          \* "61.1.abc"
    \cup {MacToken(b, h, cfg.secret) : b \in RawBodies}
    \cup {MacToken(<<54, 49, 46, 49>>, OtherHasher(h), cfg.secret)}
    \cup {MacToken(<<54, 49, 46, 49>>, h, k) : k \in Secrets}

\* the signed token with its signature segment spelled in upper case
UpperSig(token) ==
    LET two == Rsplitn2(token) IN two[2] \o Dot \o AsciiUpper(two[1])

\* the holder's edit of the expiry: the expiry segment replaced by exp, the
\* token id and mac segments kept
TamperExp(token, exp) ==
    LET one == ExpectTwo(Splitn2(token))
    IN  IF ~one.ok THEN one
        ELSE LET two == ExpectTwo(Splitn2(one.val[2]))
             IN  IF ~two.ok THEN two
                 ELSE Ok(one.val[1] \o Dot \o exp \o Dot \o two.val[2])

\* expiry segments a holder may write over the segment old: "0", "ffff", the
\* same number with a leading zero or in upper case, sixteen times the
\* number, and nothing
ExpEdits(old) ==
    {<<48>>, <<102, 102, 102, 102>>, <<48>> \o old, AsciiUpper(old),
     old \o <<48>>, <<>>} \ {old}

\* the tokens derived from the latest signed token
DerivedTokens ==
    IF signed = None \/ ~signed.res.ok THEN {}
    ELSE {signed.res.val, UpperSig(signed.res.val)}
            \cup {Tamper(signed.res.val, t).val : t \in Tids}
            \cup {TamperExp(signed.res.val, e).val :
                      e \in ExpEdits(Splitn2(Splitn2(signed.res.val)[2])[1])}

Presented(h) == DerivedTokens \cup RawTokens(h)

Init ==
    /\ now = [secs |-> 0, ms |-> 0]
    /\ cfg \in [secret : Secrets, hasher : {Sha256Name},
                server_addr : {ServerAddr}, jwt_secret : {JwtSecret}]
    /\ SECRET = Uninit
    /\ HASHER = Uninit
    /\ signed = None
    /\ verified = None
    /\ call = None
    /\ issued = None
    /\ request = None
    /\ accounts = {}
    /\ tokens = {}
    /\ threads = None

\* a second passes
Tick ==
    /\ now.secs < MaxClock
    /\ now' = [now EXCEPT !.secs = @ + 1]
    /\ UNCHANGED <<cfg, SECRET, HASHER, signed, verified, call, issued, request,
                 accounts, tokens, threads>>

\* Utility::sign(tid, ttl, &hasher); SECRET is dereferenced once new_exp
\* has succeeded
DoSign(tid, ttl, hasher) ==
    /\ verified = None
    /\ signed' = [tid |-> tid, ttl |-> ttl, hasher |-> hasher, at |-> now.secs,
                  res |-> Sign(tid, ttl, hasher)]
    /\ SECRET' = IF NewExp(ttl).ok THEN Filled(SecretBytes) ELSE SECRET
    /\ UNCHANGED <<now, cfg, HASHER, verified, call, issued, request,
                 accounts, tokens, threads>>

\* Utility::verify(&token, &hasher); SECRET is dereferenced once the token
\* has been split
DoVerify(token, hasher) ==
    /\ verified' = [token |-> token, hasher |-> hasher, at |-> now.secs,
                    res |-> Verify(token, hasher)]
    /\ SECRET' = IF ExpectTwo(Rsplitn2(token)).ok THEN Filled(SecretBytes) ELSE SECRET
    /\ UNCHANGED <<now, cfg, HASHER, signed, call, issued, request,
                 accounts, tokens, threads>>

\* a request presents a token for the first time
Present ==
    /\ verified = None
    /\ \E hasher \in Hashers : \E token \in Presented(hasher) : DoVerify(token, hasher)

\* the token verified last is presented again, under the same hasher
PresentAgain ==
    /\ verified # None
    /\ verified.at < now.secs
    /\ DoVerify(verified.token, verified.hasher)

\* the caller is done with the token verified last
Forget ==
    /\ verified # None
    /\ verified' = None
    /\ UNCHANGED <<now, cfg, SECRET, HASHER, signed, call, issued, request,
                 accounts, tokens, threads>>

Next ==
    \/ Tick
    \/ \E tid \in Tids, ttl \in TtlInputs, hasher \in Hashers : DoSign(tid, ttl, hasher)
    \/ Present
    \/ PresentAgain
    \/ Forget

Spec == Init /\ [][Next]_vars

(***************************************************************************)
(* Vocabulary of the properties, stated on the strings themselves and not  *)
(* through the operators of the codec.                                     *)
(***************************************************************************)
\* the dot-separated segments of a string
RECURSIVE Segments(_)
Segments(s) ==
    IF DotsOf(s) = {} THEN <<s>>
    ELSE LET d == CHOOSE i \in DotsOf(s) : \A j \in DotsOf(s) : i <= j
         IN  <<SubSeq(s, 1, d - 1)>> \o Segments(SubSeq(s, d + 1, Len(s)))

IsLowerHexChar(c) == (c >= 48 /\ c <= 57) \/ (c >= 97 /\ c <= 102)

IsHexChar(c) == IsLowerHexChar(c) \/ (c >= 65 /\ c <= 70)

\* a string hex::decode accepts: hex digits of either case, an even number
IsHexString(s) == Len(s) % 2 = 0 /\ \A i \in 1..Len(s) : IsHexChar(s[i])

IsLowerHex(s) == \A i \in 1..Len(s) : IsLowerHexChar(s[i])

\* the final segment of a string, and what precedes its last dot
SigOf(token) == Segments(token)[Len(Segments(token))]

BodyBefore(token) == SubSeq(token, 1, Len(token) - Len(SigOf(token)) - 1)

\* the final segment is the hex, in either case, of the MAC of what precedes it
MacMatches(token, hasher) ==
    /\ IsHexString(SigOf(token))
    /\ HexBytes(SigOf(token)) = Mac(hasher, cfg.secret, BodyBefore(token))

SignedOk == signed # None /\ signed.res.ok

\* the latest verification was of the latest signed token, unchanged
VerifiedSigned == SignedOk /\ verified # None /\ verified.token = signed.res.val

ParseError == Err("failed to parse token")
DecodeError == Err("failed to decode HMAC signature")
MacError == Err("MacError")

(***************************************************************************)
(* C1  HMAC round trip: a token returned by sign(tid, ttl, h), ttl >= 0,   *)
(* verifies under the same hasher h and the same secret, for each of the   *)
(* four hashers.                                                           *)
(***************************************************************************)
C1_RoundTrip ==
    (VerifiedSigned /\ verified.hasher = signed.hasher) => verified.res = Ok(<<>>)

C1_Witness ==
    /\ VerifiedSigned
    /\ signed.ttl > 0
    /\ signed.hasher = "Sha512"
    /\ verified.hasher = "Sha512"
    /\ verified.res.ok

(***************************************************************************)
(* C2  Tamper detection: a token that keeps the expiry and mac segments of *)
(* a signed token and has another token-id segment is refused by verify,   *)
(* under each of the four hashers.                                         *)
(***************************************************************************)
TamperedTid ==
    /\ SignedOk
    /\ verified # None
    /\ Len(Segments(verified.token)) = 3
    /\ Segments(verified.token)[1] # Segments(signed.res.val)[1]
    /\ Segments(verified.token)[2] = Segments(signed.res.val)[2]
    /\ Segments(verified.token)[3] = Segments(signed.res.val)[3]

C2_TamperDetected == TamperedTid => ~verified.res.ok

C2_Witness ==
    /\ TamperedTid
    /\ verified.hasher = signed.hasher
    /\ verified.res = MacError

C4_ThreeOutcomes ==
    verified # None => verified.res \in {DecodeError, MacError, Ok(<<>>)}

(***************************************************************************)
(* C4  as amended: verify never panics and returns one of four outcomes:   *)
(* the parse error when the string has no dot; else, with sig the part     *)
(* after the last dot and body the part before it, the decode error when   *)
(* sig is not valid hex, the mismatch error when the decoded sig is not    *)
(* MAC(secret, body) under the hasher, and Ok otherwise.                   *)
(***************************************************************************)
ExpectedVerdict(token, hasher) ==
    IF DotsOf(token) = {} THEN ParseError
    ELSE IF ~IsHexString(SigOf(token)) THEN DecodeError
    ELSE IF ~MacMatches(token, hasher) THEN MacError
    ELSE Ok(<<>>)

C4_FourOutcomes ==
    verified # None => verified.res = ExpectedVerdict(verified.token, verified.hasher)

C4_Witness ==
    /\ SignedOk
    /\ verified # None
    /\ verified.token = UpperSig(signed.res.val)
    /\ verified.token # signed.res.val
    /\ verified.hasher = signed.hasher
    /\ verified.res = Ok(<<>>)

(***************************************************************************)
(* C5  Algorithm separation: a signed token fails verify under every       *)
(* hasher other than the one it was signed with, and verifies under that   *)
(* one.                                                                    *)
(***************************************************************************)
C5_AlgorithmSeparation ==
    VerifiedSigned => (verified.res.ok <=> verified.hasher = signed.hasher)

C5_Witness ==
    /\ VerifiedSigned
    /\ signed.hasher = "Sha256"
    /\ verified.hasher = "Sha384"
    /\ ~verified.res.ok

(***************************************************************************)
(* C7  Wire format: a token returned by sign has exactly two dots; its     *)
(* segments are the hex of the token id, the lowercase hex of the expiry   *)
(* (the clock at signing plus ttl) and the hex of the MAC, under the       *)
(* hasher, of "<first segment>.<second segment>", which is the body verify *)
(* recomputes the MAC over.                                                *)
(***************************************************************************)
C7_WireFormat ==
    SignedOk =>
        LET token == signed.res.val
            segs  == Segments(token)
        IN  /\ Cardinality(DotsOf(token)) = 2
            /\ \A i \in 1..3 : IsLowerHex(segs[i])
            /\ IsHexString(segs[1]) /\ HexBytes(segs[1]) = signed.tid
            /\ ParseHex(segs[2]) = signed.at + signed.ttl
            /\ (Len(segs[2]) > 1 => segs[2][1] # 48)
            /\ IsHexString(segs[3])
            /\ HexBytes(segs[3]) = Mac(signed.hasher, cfg.secret, segs[1] \o Dot \o segs[2])
            /\ Rsplitn2(token) = <<segs[3], segs[1] \o Dot \o segs[2]>>

C7_Witness ==
    /\ SignedOk
    /\ signed.ttl = MaxTtl
    /\ Len(signed.tid) = 2
    /\ \E i \in 1..Len(Segments(signed.res.val)[2]) :
            Segments(signed.res.val)[2][i] >= 97

(***************************************************************************)
(* C10  HMAC verify does not depend on the time: a token presented again   *)
(* under the same hasher gets the verdict it got before, however far the   *)
(* clock has advanced, and a signed token verifies after its embedded      *)
(* expiry has passed (a token signed with ttl = 0 still verifies).         *)
(***************************************************************************)
SameVerdictLater ==
    (/\ verified # None
     /\ verified' # None
     /\ verified'.token = verified.token
     /\ verified'.hasher = verified.hasher) => verified'.res = verified.res

VerifiesAfterExpiry ==
    (/\ VerifiedSigned
     /\ verified.hasher = signed.hasher
     /\ verified.at > signed.at + signed.ttl) => verified.res.ok

C10_TimeIndependent == [][SameVerdictLater]_vars /\ []VerifiesAfterExpiry

C10_Witness ==
    /\ VerifiedSigned
    /\ verified.hasher = signed.hasher
    /\ signed.ttl = 0
    /\ verified.at > signed.at
    /\ now.secs > verified.at
    /\ verified.res.ok

(***************************************************************************)
(* The configuration specification: the Lazy cells of config.rs are        *)
(* dereferenced and Hasher::from_str is called, for a configured hasher    *)
(* name that may be anything.                                              *)
(***************************************************************************)
HasherNames ==
    { <<115, 104, 97, 50, 50, 52>>,                 \* "sha224"
      <<83, 72, 65, 50, 53, 54>>,                   \* "SHA256"
      <<83, 104, 97, 51, 56, 52>>,                  \* "Sha384"
      <<115, 72, 65, 53, 49, 50>>,                  \* "sHA512"
      <<115, 104, 97, 53, 49, 50>>,                 \* "sha512"
      <<>>,                                         \* ""
      <<97, 112, 112, 108, 101>>,                   \* "apple"
      <<111, 114, 97, 110, 103, 101>>,              \* "orange"
      <<115, 104, 97, 49>>,                         \* "sha1"
      <<115, 104, 97, 50, 53, 54, 54>>,             \* "sha2566"
      <<32, 115, 104, 97, 50, 53, 54>>,             \* " sha256"
      <<115, 104, 97, 45, 50, 53, 54>>,             \* "sha-256"
      <<115, 104, 97, 50, 50, 54>> }                \* "sha226"

InitCfg ==
    /\ now = [secs |-> 0, ms |-> 0]
    /\ cfg \in [secret : Secrets, hasher : HasherNames,
                server_addr : {ServerAddr}, jwt_secret : {JwtSecret}]
    /\ SECRET = Uninit
    /\ HASHER = Uninit
    /\ signed = None
    /\ verified = None
    /\ call = None
    /\ issued = None
    /\ request = None
    /\ accounts = {}
    /\ tokens = {}
    /\ threads = None

\* *HASHER: the first dereference runs the initialiser of config.rs
DerefHasher ==
    /\ HASHER' = Filled(Force(HASHER, HasherInit))
    /\ UNCHANGED <<now, cfg, SECRET, signed, verified, call, issued, request,
                 accounts, tokens, threads>>

\* *SECRET
DerefSecret ==
    /\ SECRET' = Filled(SecretBytes)
    /\ UNCHANGED <<now, cfg, HASHER, signed, verified, call, issued, request,
                 accounts, tokens, threads>>

\* Hasher::from_str(name)
CallFromStr(name) ==
    /\ call' = [fn |-> "from_str", arg |-> name, res |-> HasherFromStr(name)]
    /\ UNCHANGED <<now, cfg, SECRET, HASHER, signed, verified, issued, request,
                 accounts, tokens, threads>>

NextCfg ==
    \/ DerefHasher
    \/ DerefSecret
    \/ \E name \in HasherNames : CallFromStr(name)

SpecCfg == InitCfg /\ [][NextCfg]_vars

(***************************************************************************)
(* C6  Algorithm selection: a name resolves to Sha224, Sha256, Sha384 or   *)
(* Sha512 when it is one of the four names in any mix of upper and lower   *)
(* case; from_str returns an error for every other name, the empty one     *)
(* included, and HASHER is then Sha256.                                    *)
(***************************************************************************)
SameIgnoringCase(a, b) ==
    \/ a = b
    \/ a >= 65 /\ a <= 90 /\ b = a + 32
    \/ a >= 97 /\ a <= 122 /\ b = a - 32

\* s spells the name of hasher h in some mix of cases
Spells(s, h) ==
    /\ Len(s) = Len(VariantName(h))
    /\ \A i \in 1..Len(s) : SameIgnoringCase(s[i], VariantName(h)[i])

\* what a name is to resolve to
Resolves(s, r) ==
    /\ \A h \in Hashers : Spells(s, h) => r = Ok(h)
    /\ (\A h \in Hashers : ~Spells(s, h)) => ~r.ok

C6_AlgorithmSelection ==
    /\ call # None => Resolves(call.arg, call.res)
    /\ (call # None /\ call.arg = <<>>) => ~call.res.ok
    /\ (call # None /\ call.arg = <<115, 104, 97, 53, 49, 50>>) => call.res = Ok("Sha512")
    /\ HASHER.set =>
            /\ \A h \in Hashers : Spells(cfg.hasher, h) => HASHER.val = h
            /\ (\A h \in Hashers : ~Spells(cfg.hasher, h)) => HASHER.val = "Sha256"

C6_Witness ==
    /\ call # None
    /\ call.arg = <<83, 72, 65, 50, 53, 54>>
    /\ call.res = Ok("Sha256")
    /\ cfg.hasher = <<97, 112, 112, 108, 101>>
    /\ HASHER = Filled("Sha256")

(***************************************************************************)
(* server/services/profile.rs and utils/jwt.rs                             *)
(***************************************************************************)
VERSION == 1

\* the largest time chrono's NaiveDateTime holds, in seconds, at the scale of
\* the integer types: below the largest i64 number of milliseconds
ChronoMaxSecs == I64Max \div 1500

\* NaiveDateTime::from_timestamp_opt(secs, 0): None out of chrono's range
FromTimestampOpt(secs) ==
    IF secs > ChronoMaxSecs \/ secs < 0 - ChronoMaxSecs THEN Err("None")
    ELSE Ok([secs |-> secs, ms |-> 0])

\* NaiveDateTime::from_timestamp_millis(millis): None out of chrono's range
FromTimestampMillis(millis) ==
    IF millis \div 1000 > ChronoMaxSecs \/ millis \div 1000 < 0 - ChronoMaxSecs
    THEN Err("None")
    ELSE Ok([secs |-> millis \div 1000, ms |-> millis % 1000])

\* Duration::as_millis
AsMillis(d) == d.secs * 1000 + d.ms

\* new_exp of profile.rs: the expiry in epoch seconds and as a datetime
ProfileNewExp(ttl) ==
    LET conv == U64TryFromI64(ttl)
    IN  IF ~conv.ok THEN Err("failed to convert i64 ttl to u64")
        ELSE LET since == DurationSinceEpoch(now)
             IN  IF ~since.ok THEN Err("failed to create current system time")
                 ELSE LET sum == DurationAdd(since.val, DurationFromSecs(conv.val))
                      IN  IF ~sum.ok THEN sum
                          ELSE IF ~I64TryFromUnsigned(sum.val.secs).ok
                               THEN Err("failed to convert u128 expiration seconds to i64")
                               ELSE LET dt == FromTimestampOpt(sum.val.secs)
                                    IN  IF ~dt.ok
                                        THEN Err("faield to parse expiration seconds to datetime")
                                        ELSE Ok([exp |-> sum.val.secs, datetime |-> dt.val])

\* expires_in of jwt.rs: the expiry as an integer and as a datetime
ExpiresIn(ttl) ==
    LET conv == U64TryFromI64(ttl)
    IN  IF ~conv.ok THEN Err("failed to convert i64 ttl to u64")
        ELSE LET since == DurationSinceEpoch(now)
             IN  IF ~since.ok THEN Err("failed to create JWT token expiry")
                 ELSE LET sum == DurationAdd(since.val, DurationFromSecs(conv.val))
                      IN  IF ~sum.ok THEN sum
                          ELSE IF ~I64TryFromUnsigned(AsMillis(sum.val)).ok
                               THEN Err("failed to convert u128 expiry to i64")
                               ELSE LET dt == FromTimestampMillis(AsMillis(sum.val))
                                    IN  IF ~dt.ok
                                        THEN Err("faield to parse expiry millis to datetime")
                                        ELSE Ok([exp |-> AsMillis(sum.val),
                                                 datetime |-> dt.val])

\* "/sharing/"
SharingPath == <<47, 115, 104, 97, 114, 105, 110, 103, 47>>

\* jsonwebtoken::encode(&Header::default(), &claims, &key): the claims with
\* a signature only the key yields
JwtEncode(claims, key) ==
    Ok([alg |-> "HS256", claims |-> claims, sig |-> <<"HS256", claims, key>>])

\* new_token of profile.rs
NewToken(iss, sub, aud, jti, exp) ==
    Context(JwtEncode([iss |-> iss, sub |-> sub, aud |-> aud, jti |-> jti, exp |-> exp],
                      cfg.jwt_secret),
            "failed to create JWT token")

\* DateTime<Utc>::to_string, as the day since the epoch and the time of day
DateTimeToString(dt) ==
    <<dt.secs \div 86400, (dt.secs % 86400) \div 3600, (dt.secs % 3600) \div 60,
      dt.secs % 60>>

\* Issue with a fault: the endpoint and the audience leave the provider out
IssueNoProvider(id, provider, recipient, ttl) ==
    LET endpoint == cfg.server_addr \o SharingPath
        exp      == Context(ProfileNewExp(ttl), "expiration time calculation failed")
    IN  IF ~exp.ok THEN exp
        ELSE LET token == Context(NewToken(cfg.server_addr, recipient, <<endpoint>>, id,
                                           exp.val.exp),
                                  "profile creation failed")
             IN  IF ~token.ok THEN token
                 ELSE Ok([share_credentials_version |-> VERSION,
                          endpoint |-> endpoint,
                          bearer_token |-> token.val,
                          expiration_time |-> DateTimeToString(exp.val.datetime)])

\* Service::issue
Issue(id, provider, recipient, ttl) ==
    LET endpoint == cfg.server_addr \o SharingPath \o provider
        exp      == Context(ProfileNewExp(ttl), "expiration time calculation failed")
    IN  IF ~exp.ok THEN exp
        ELSE LET token == Context(NewToken(cfg.server_addr, recipient, <<endpoint>>, id,
                                           exp.val.exp),
                                  "profile creation failed")
             IN  IF ~token.ok THEN token
                 ELSE Ok([share_credentials_version |-> VERSION,
                          endpoint |-> endpoint,
                          bearer_token |-> token.val,
                          expiration_time |-> DateTimeToString(exp.val.datetime)])

(***************************************************************************)
(* The expiry specification: the three expiry computations, sign and       *)
(* issue are called with any ttl at any clock reading, the integer types   *)
(* being scaled to IntBits bits.                                           *)
(***************************************************************************)
\* the values within EdgeSpan of the boundaries: of zero, of the largest
\* datetime, of the largest number of milliseconds, of the largest i64
EdgeValues ==
    (0 .. EdgeSpan)
    \cup ((ChronoMaxSecs - 1) .. (ChronoMaxSecs + 1))
    \cup ((I64Max \div 1000 - 1) .. (I64Max \div 1000 + 1))
    \cup ((I64Max - EdgeSpan) .. I64Max)

ExpTtlInputs == {I64Min, -1} \cup EdgeValues

ClockInputs == [secs : {-1} \cup EdgeValues, ms : {0, 999}]

InitExp ==
    /\ now \in ClockInputs
    /\ cfg = [secret |-> <<107>>, hasher |-> Sha256Name,
              server_addr |-> ServerAddr, jwt_secret |-> JwtSecret]
    /\ SECRET = Uninit
    /\ HASHER = Uninit
    /\ signed = None
    /\ verified = None
    /\ call = None
    /\ issued = None
    /\ request = None
    /\ accounts = {}
    /\ tokens = {}
    /\ threads = None

\* new_exp(ttl) of token.rs
CallNewExp(ttl) ==
    /\ call' = [fn |-> "token::new_exp", arg |-> ttl, res |-> NewExp(ttl)]
    /\ UNCHANGED <<now, cfg, SECRET, HASHER, signed, verified, issued, request,
                 accounts, tokens, threads>>

\* new_exp(ttl) of profile.rs
CallProfileNewExp(ttl) ==
    /\ call' = [fn |-> "profile::new_exp", arg |-> ttl, res |-> ProfileNewExp(ttl)]
    /\ UNCHANGED <<now, cfg, SECRET, HASHER, signed, verified, issued, request,
                 accounts, tokens, threads>>

\* expires_in(ttl) of jwt.rs
CallExpiresIn(ttl) ==
    /\ call' = [fn |-> "expires_in", arg |-> ttl, res |-> ExpiresIn(ttl)]
    /\ UNCHANGED <<now, cfg, SECRET, HASHER, signed, verified, issued, request,
                 accounts, tokens, threads>>

\* Utility::sign(tid, ttl, &hasher)
CallSign(tid, ttl, hasher) ==
    /\ call' = [fn |-> "sign", arg |-> ttl, res |-> Sign(tid, ttl, hasher)]
    /\ SECRET' = IF NewExp(ttl).ok THEN Filled(SecretBytes) ELSE SECRET
    /\ UNCHANGED <<now, cfg, HASHER, signed, verified, issued, request,
                 accounts, tokens, threads>>

\* Service::issue(id, provider, recipient, ttl)
CallIssue(id, provider, recipient, ttl) ==
    /\ call' = [fn |-> "issue", arg |-> ttl, res |-> Issue(id, provider, recipient, ttl)]
    /\ UNCHANGED <<now, cfg, SECRET, HASHER, signed, verified, issued, request,
                 accounts, tokens, threads>>

NextExp ==
    \/ \E ttl \in ExpTtlInputs : CallNewExp(ttl)
    \/ \E ttl \in ExpTtlInputs : CallProfileNewExp(ttl)
    \/ \E ttl \in ExpTtlInputs : CallExpiresIn(ttl)
    \/ \E ttl \in ExpTtlInputs : CallSign(<<97>>, ttl, "Sha256")
    \/ \E ttl \in ExpTtlInputs :
            CallIssue(<<116, 49>>, <<97, 99, 109, 101>>, <<98, 111, 98>>, ttl)

SpecExp == InitExp /\ [][NextExp]_vars

(***************************************************************************)
(* C8  Expiry arithmetic is total and exact: for every ttl and clock       *)
(* reading, new_exp of the token codec and new_exp of the profile service  *)
(* return the clock's epoch seconds plus ttl, within the i64 range, or an  *)
(* error; a ttl < 0 yields an error, and so do sign and issue then; a sum  *)
(* beyond the i64 range yields an error; nothing panics, wraps or          *)
(* truncates.                                                              *)
(***************************************************************************)
ExpiryFns == {"token::new_exp", "profile::new_exp"}

\* the expiry in seconds a successful call returned
ExpOf(c) ==
    CASE c.fn = "token::new_exp"   -> c.res.val
      [] c.fn = "profile::new_exp" -> c.res.val.exp
      [] c.fn = "expires_in"       -> c.res.val.exp

C8_ExpiryArithmetic ==
    call # None =>
        /\ call.res # Err("panic")
        /\ (call.fn \in ExpiryFns /\ call.res.ok) =>
                /\ ExpOf(call) = now.secs + call.arg
                /\ ExpOf(call) <= I64Max
                /\ call.arg >= 0
                /\ now.secs >= 0
        /\ (call.fn \in ExpiryFns \cup {"sign", "issue"} /\ call.arg < 0) => ~call.res.ok
        /\ (call.fn \in ExpiryFns \cup {"sign", "issue"} /\ now.secs + call.arg > I64Max)
                => ~call.res.ok
        /\ (call.fn = "profile::new_exp" /\ call.res.ok) =>
                call.res.val.datetime = [secs |-> now.secs + call.arg, ms |-> 0]

C8_Witness ==
    /\ call # None
    /\ call.fn = "token::new_exp"
    /\ call.arg > 0
    /\ now.secs > 0
    /\ call.res = Ok(I64Max)

\* a second witness of C8's error case: a sum one beyond the i64 range
C8_OverflowReached ==
    /\ call # None
    /\ call.fn = "profile::new_exp"
    /\ now.secs + call.arg = I64Max + 1
    /\ ~call.res.ok

(***************************************************************************)
(* C9  as claimed: expires_in(ttl) returns, when it succeeds, the expiry   *)
(* in epoch seconds, the clock's epoch seconds plus ttl (the unit the exp  *)
(* claim is compared in), and a datetime of that instant.                  *)
(***************************************************************************)
C9_ExpiresInSeconds ==
    (call # None /\ call.fn = "expires_in" /\ call.res.ok) =>
        /\ ExpOf(call) = now.secs + call.arg
        /\ call.res.val.datetime.secs = now.secs + call.arg

\* what the code returns instead: the expiry in milliseconds
C9_ExpiresInMillis ==
    (call # None /\ call.fn = "expires_in" /\ call.res.ok) =>
        /\ ExpOf(call) = (now.secs + call.arg) * 1000 + now.ms
        /\ call.res.val.datetime = [secs |-> now.secs + call.arg, ms |-> now.ms]

(***************************************************************************)
(* The claims scheme: profiles issued by Service::issue                    *)
(* (server/services/profile.rs) and the bearer tokens checked by the       *)
(* as_sharing middleware (server/middlewares/auth.rs).  A JSON Web Token   *)
(* is the record [alg, claims, sig] that JwtEncode builds; a string that   *)
(* is not three base64 segments is the record Malformed.                   *)
(***************************************************************************)
\* Option::Some(v); Option::None is None
Some(v) == [some |-> v]

\* the leeway in seconds of jsonwebtoken's Validation::default()
Leeway == 60

\* jsonwebtoken's Validation::default(): HS256 only, exp validated with the
\* default leeway, no issuer and no audience expected
ValidationDefault ==
    [leeway |-> Leeway, algorithms |-> {"HS256"}, iss |-> None, aud |-> None]

\* a bearer string that does not split into header, claims and signature
Malformed == [malformed |-> TRUE]

\* the elements of a Vec
Range(seq) == {seq[i] : i \in DOMAIN seq}

\* JwtValidate with a fault: the leeway is added to the clock, so that a
\* token is taken as expired during the leeway before its exp
JwtValidateEarly(claims, validation) ==
    IF "exp" \notin DOMAIN claims THEN Err("MissingRequiredClaim")
    ELSE IF claims.exp < now.secs + validation.leeway THEN Err("ExpiredSignature")
    ELSE IF validation.iss # None /\ claims.iss \notin validation.iss.some
         THEN Err("InvalidIssuer")
    ELSE IF validation.aud # None /\ Range(claims.aud) \cap validation.aud.some = {}
         THEN Err("InvalidAudience")
    ELSE Ok(claims)

\* JwtValidate with a fault: exp is not compared with the clock
JwtValidateNoExp(claims, validation) ==
    IF "exp" \notin DOMAIN claims THEN Err("MissingRequiredClaim")
    ELSE IF validation.iss # None /\ claims.iss \notin validation.iss.some
         THEN Err("InvalidIssuer")
    ELSE IF validation.aud # None /\ Range(claims.aud) \cap validation.aud.some = {}
         THEN Err("InvalidAudience")
    ELSE Ok(claims)

\* jsonwebtoken's validate(claims, validation), reading the clock: exp is
\* compared with the clock less the leeway, then the issuer, then the audience
JwtValidate(claims, validation) ==
    IF "exp" \notin DOMAIN claims THEN Err("MissingRequiredClaim")
    ELSE IF claims.exp < now.secs - validation.leeway THEN Err("ExpiredSignature")
    ELSE IF validation.iss # None /\ claims.iss \notin validation.iss.some
         THEN Err("InvalidIssuer")
    ELSE IF validation.aud # None /\ Range(claims.aud) \cap validation.aud.some = {}
         THEN Err("InvalidAudience")
    ELSE Ok(claims)

\* the names serde gives the variants of Role: #[serde(rename = "admin")],
\* #[serde(rename = "guest")]
SerdeRoles == {"admin", "guest"}

\* serde's deserialisation of the claims into a struct with the given
\* fields: every field is there (others are ignored), and a role is one of
\* serde's names of Role
Deserialises(claims, fields) ==
    /\ fields \subseteq DOMAIN claims
    /\ "role" \in fields => claims.role \in SerdeRoles

\* jsonwebtoken::decode::<T>(token, &key, &validation) for a claims struct T
\* with the given fields: the segments, the algorithm, the signature, the
\* deserialisation into T, then the validation of the claims
JwtDecode(token, key, validation, fields) ==
    IF "sig" \notin DOMAIN token THEN Err("InvalidToken")
    ELSE IF token.alg \notin validation.algorithms THEN Err("InvalidAlgorithm")
    ELSE IF token.sig # <<token.alg, token.claims, key>> THEN Err("InvalidSignature")
    ELSE IF ~Deserialises(token.claims, fields) THEN Err("Json")
    ELSE JwtValidate(token.claims, validation)

\* the fields of the Claims struct of the sharing scheme
SharingClaimsFields == {"iss", "sub", "aud", "jti", "exp"}

\* AccountName::new: #[validate(length(min = 1))]
AccountNameNew(value) ==
    IF Len(value) >= 1 THEN Ok(value) ELSE Err("ValidationErrors")

\* AsSharing with a fault: no audience is set on the validation
AsSharingAnyAudience(bearer, provider, hasState, lookup) ==
    IF bearer = None THEN Err("BadRequest")
    ELSE LET iss        == cfg.server_addr
             validation == [ValidationDefault EXCEPT !.iss = Some({iss})]
             token      == JwtDecode(bearer, cfg.jwt_secret, validation,
                                     SharingClaimsFields)
         IN  IF ~token.ok THEN Err("Unauthorized")
             ELSE IF ~hasState THEN Err("failed to acquire shared state")
             ELSE IF ~AccountNameNew(token.val.sub).ok THEN Err("ValidationFailed")
             ELSE IF ~lookup.ok
                  THEN Err("error occurred while selecting recipient from database")
             ELSE Ok("next")

\* AsSharing with a fault: the error of the decoding is returned as it is
AsSharingDecodeError(bearer, provider, hasState, lookup) ==
    IF bearer = None THEN Err("BadRequest")
    ELSE LET iss        == cfg.server_addr
             aud        == cfg.server_addr \o SharingPath \o provider
             validation == [ValidationDefault EXCEPT !.iss = Some({iss}),
                                                     !.aud = Some({aud})]
             token      == JwtDecode(bearer, cfg.jwt_secret, validation,
                                     SharingClaimsFields)
         IN  IF ~token.ok THEN token
             ELSE IF ~hasState THEN Err("failed to acquire shared state")
             ELSE IF ~AccountNameNew(token.val.sub).ok THEN Err("ValidationFailed")
             ELSE IF ~lookup.ok
                  THEN Err("error occurred while selecting recipient from database")
             ELSE Ok("next")

\* AsSharing with a fault: the shared state is acquired before the token is
\* decoded
AsSharingStateFirst(bearer, provider, hasState, lookup) ==
    IF bearer = None THEN Err("BadRequest")
    ELSE IF ~hasState THEN Err("failed to acquire shared state")
    ELSE LET iss        == cfg.server_addr
             aud        == cfg.server_addr \o SharingPath \o provider
             validation == [ValidationDefault EXCEPT !.iss = Some({iss}),
                                                     !.aud = Some({aud})]
             token      == JwtDecode(bearer, cfg.jwt_secret, validation,
                                     SharingClaimsFields)
         IN  IF ~token.ok THEN Err("Unauthorized")
             ELSE IF ~AccountNameNew(token.val.sub).ok THEN Err("ValidationFailed")
             ELSE IF ~lookup.ok
                  THEN Err("error occurred while selecting recipient from database")
             ELSE Ok("next")

\* AsSharing with a fault: a token with no active record in the token table
\* is refused
AsSharingActiveToken(bearer, provider, hasState, lookup) ==
    IF bearer = None THEN Err("BadRequest")
    ELSE LET iss        == cfg.server_addr
             aud        == cfg.server_addr \o SharingPath \o provider
             validation == [ValidationDefault EXCEPT !.iss = Some({iss}),
                                                     !.aud = Some({aud})]
             token      == JwtDecode(bearer, cfg.jwt_secret, validation,
                                     SharingClaimsFields)
         IN  IF ~token.ok THEN Err("Unauthorized")
             ELSE IF ~(\E row \in tokens : row.id = token.val.jti /\ row.active)
                  THEN Err("Unauthorized")
             ELSE IF ~hasState THEN Err("failed to acquire shared state")
             ELSE IF ~AccountNameNew(token.val.sub).ok THEN Err("ValidationFailed")
             ELSE IF ~lookup.ok
                  THEN Err("error occurred while selecting recipient from database")
             ELSE Ok("next")

\* as_sharing of auth.rs for a request with the given bearer token (None
\* without an Authorization header) on the path of a provider; hasState
\* tells whether the request carries the SharedState extension, lookup is
\* the outcome of AccountEntity::load_by_name
AsSharing(bearer, provider, hasState, lookup) ==
    IF bearer = None THEN Err("BadRequest")
    ELSE LET iss        == cfg.server_addr
             aud        == cfg.server_addr \o SharingPath \o provider
             validation == [ValidationDefault EXCEPT !.iss = Some({iss}),
                                                     !.aud = Some({aud})]
             token      == JwtDecode(bearer, cfg.jwt_secret, validation,
                                     SharingClaimsFields)
         IN  IF ~token.ok THEN Err("Unauthorized")
             ELSE IF ~hasState THEN Err("failed to acquire shared state")
             ELSE IF ~AccountNameNew(token.val.sub).ok THEN Err("ValidationFailed")
             ELSE IF ~lookup.ok
                  THEN Err("error occurred while selecting recipient from database")
             ELSE Ok("next")

(***************************************************************************)
(* The catalog scheme of utils/jwt.rs: the role a path requires and the    *)
(* Claims extractor.                                                       *)
(***************************************************************************)
\* str::trim_start_matches("/"): every leading '/' is removed
RECURSIVE TrimStartSlashes(_)
TrimStartSlashes(s) ==
    IF s # <<>> /\ Head(s) = 47 THEN TrimStartSlashes(Tail(s)) ELSE s

\* str::split("/").next(): the piece before the first '/', or all of s
FirstSegment(s) ==
    IF \E i \in 1..Len(s) : s[i] = 47
    THEN SubSeq(s, 1, (CHOOSE i \in 1..Len(s) : s[i] = 47 /\ \A j \in 1..(i - 1) : s[j] # 47) - 1)
    ELSE s

\* Role::from_str, derived by strum with ascii_case_insensitive
RoleFromStr(s) ==
    IF AsciiLower(s) = <<97, 100, 109, 105, 110>> THEN Ok("Admin")
    ELSE IF AsciiLower(s) = <<103, 117, 101, 115, 116>> THEN Ok("Guest")
    ELSE Err("VariantNotFound")

\* RequiredRoleOf with a fault: the leading separators are kept
RequiredRoleOfNoTrim(path) ==
    UnwrapOr(RoleFromStr(FirstSegment(path)), "Guest")

\* required_role_of
RequiredRoleOf(path) ==
    UnwrapOr(RoleFromStr(FirstSegment(TrimStartSlashes(path))), "Guest")

\* the fields of the Claims struct of the catalog scheme
CatalogClaimsFields == {"name", "email", "namespace", "role", "exp"}

\* the Role serde reads from its name
RoleOfSerde(name) == IF name = "admin" THEN "Admin" ELSE "Guest"

\* FromRequestParts with a fault: the role of the claims is not looked at
FromRequestPartsNoGate(bearer, path) ==
    IF bearer = None THEN Err("Unauthorized")
    ELSE LET jwt == JwtDecode(bearer, cfg.jwt_secret, ValidationDefault,
                              CatalogClaimsFields)
         IN  IF ~jwt.ok THEN Err("Unauthorized")
             ELSE Ok(jwt.val)

\* Claims::from_request_parts for a request with the given bearer token
\* (None when the Authorization header is missing or unreadable) and path
FromRequestParts(bearer, path) ==
    IF bearer = None THEN Err("Unauthorized")
    ELSE LET jwt == JwtDecode(bearer, cfg.jwt_secret, ValidationDefault,
                              CatalogClaimsFields)
         IN  IF ~jwt.ok THEN Err("Unauthorized")
             ELSE IF RequiredRoleOf(path) = "Guest" THEN Ok(jwt.val)
             ELSE IF RoleOfSerde(jwt.val.role) = "Guest" THEN Err("Unauthorized")
             ELSE Ok(jwt.val)

(***************************************************************************)
(* The claims specification: profiles are issued for two providers and     *)
(* two recipients, the clock advances by seconds and by the leeway, and    *)
(* requests present the issued bearer token, a variant of it, or none, on  *)
(* the sharing path of either provider, or a token of the catalog scheme   *)
(* on a path of the catalog.                                               *)
(***************************************************************************)
\* the clock of the claims specification starts at StartClock seconds
StartClock == 100
\* the clock of the claims specification leaps by the leeway MaxLeaps times
MaxLeaps == 1

\* "t1"
ProfileId == <<116, 49>>
\* "acme", "jane"
Providers == {<<97, 99, 109, 101>>, <<106, 97, 110, 101>>}
\* "bob" and the empty name
Recipients == {<<98, 111, 98>>, <<>>}
JwtTtlInputs == {-1, 0, 1, Leeway + 1}

\* a key other than the server's: "x"
OtherKey == <<120>>
\* the address of another server: "https://o"
OtherAddr == <<104, 116, 116, 112, 115, 58, 47, 47, 111>>

\* the token with the signature the key yields for its header and claims
Resign(token, key) == [token EXCEPT !.sig = <<token.alg, token.claims, key>>]

\* claims of the catalog scheme (utils/jwt.rs): [name, email, namespace, role, exp]
CatalogClaims(role, exp) ==
    [name |-> <<98, 111, 98>>, email |-> <<98, 64, 104>>, namespace |-> <<110>>,
     role |-> role, exp |-> exp]

\* the bearer tokens a request to a sharing path presents: none, a
\* malformed string, the issued token, the issued token signed with another
\* key, with another issuer, with another algorithm, and a token of the
\* catalog scheme signed by the server
SharingBearers ==
    {None, Malformed}
    \cup IF issued # None /\ issued.res.ok
         THEN LET t == issued.res.val.bearer_token
              IN  {t,
                   Resign(t, OtherKey),
                   Resign([t EXCEPT !.claims.iss = OtherAddr], cfg.jwt_secret),
                   Resign([t EXCEPT !.alg = "HS384"], cfg.jwt_secret),
                   Resign([t EXCEPT !.claims = CatalogClaims("guest", t.claims.exp)],
                          cfg.jwt_secret)}
         ELSE {}

\* a token of the catalog scheme signed with the key
CatalogToken(role, exp, key) == JwtEncode(CatalogClaims(role, exp), key).val

\* the bearer tokens a request to the catalog presents: none, a malformed
\* string, tokens signed by the server for each role and for a role serde
\* does not know, expired beyond the leeway, expired within the leeway and
\* unexpired, an admin's token signed with another key, and the token of
\* the issued profile
CatalogBearers ==
    {None, Malformed}
    \cup {CatalogToken(role, exp, cfg.jwt_secret) :
            role \in SerdeRoles \cup {"root"},
            exp \in {now.secs - Leeway - 1, now.secs - 1, now.secs + 1}}
    \cup {CatalogToken("admin", now.secs + 1, OtherKey)}
    \cup IF issued # None /\ issued.res.ok THEN {issued.res.val.bearer_token} ELSE {}

\* "/admin/thing", "/shares", "/Admin", "/guest", "/"
CatalogPaths == {<<47, 97, 100, 109, 105, 110, 47, 116, 104, 105, 110, 103>>, <<47, 115, 104, 97, 114, 101, 115>>, <<47, 65, 100, 109, 105, 110>>, <<47, 103, 117, 101, 115, 116>>, <<47>>}

\* the outcomes of AccountEntity::load_by_name: a row, no row, a database error
Lookups == {Ok(Some("row")), Ok(None), Err("sqlx")}

InitJwt ==
    /\ now = [secs |-> StartClock, ms |-> 0]
    /\ cfg = [secret |-> <<107>>, hasher |-> Sha256Name,
              server_addr |-> ServerAddr, jwt_secret |-> JwtSecret]
    /\ SECRET = Uninit
    /\ HASHER = Uninit
    /\ signed = None
    /\ verified = None
    /\ call = None
    /\ issued = None
    /\ request = None
    /\ accounts = {}
    /\ tokens = {}
    /\ threads = None

\* a second passes
JwtTick ==
    /\ request = None
    /\ (now.secs - StartClock) % Leeway < MaxClock
    /\ now' = [now EXCEPT !.secs = @ + 1]
    /\ UNCHANGED <<cfg, SECRET, HASHER, signed, verified, call, issued, request,
                 accounts, tokens, threads>>

\* the leeway passes
JwtLeap ==
    /\ request = None
    /\ now.secs + Leeway <= StartClock + MaxLeaps * Leeway + MaxClock
    /\ now' = [now EXCEPT !.secs = @ + Leeway]
    /\ UNCHANGED <<cfg, SECRET, HASHER, signed, verified, call, issued, request,
                 accounts, tokens, threads>>

\* Service::issue(id, provider, recipient, ttl)
DoIssue(id, provider, recipient, ttl) ==
    /\ request = None
    /\ issued' = [id |-> id, provider |-> provider, recipient |-> recipient,
                  ttl |-> ttl, at |-> now,
                  res |-> Issue(id, provider, recipient, ttl)]
    /\ UNCHANGED <<now, cfg, SECRET, HASHER, signed, verified, call, request,
                 accounts, tokens, threads>>

\* a request to a sharing path passes through as_sharing
Receive(bearer, provider, hasState, lookup) ==
    /\ request = None
    /\ request' = [fn |-> "as_sharing", bearer |-> bearer, provider |-> provider,
                   hasState |-> hasState, lookup |-> lookup, at |-> now,
                   res |-> AsSharing(bearer, provider, hasState, lookup)]
    /\ UNCHANGED <<now, cfg, SECRET, HASHER, signed, verified, call, issued,
                 accounts, tokens, threads>>

\* a request to the catalog has its Claims extracted
Extract(bearer, path) ==
    /\ request = None
    /\ request' = [fn |-> "from_request_parts", bearer |-> bearer, path |-> path,
                   at |-> now, res |-> FromRequestParts(bearer, path)]
    /\ UNCHANGED <<now, cfg, SECRET, HASHER, signed, verified, call, issued,
                 accounts, tokens, threads>>

\* the response is sent
Respond ==
    /\ request # None
    /\ request' = None
    /\ UNCHANGED <<now, cfg, SECRET, HASHER, signed, verified, call, issued,
                 accounts, tokens, threads>>

NextJwt ==
    \/ JwtTick
    \/ JwtLeap
    \/ \E provider \in Providers, recipient \in Recipients, ttl \in JwtTtlInputs :
            DoIssue(ProfileId, provider, recipient, ttl)
    \/ \E bearer \in SharingBearers, provider \in Providers, hasState \in BOOLEAN,
          lookup \in Lookups :
            Receive(bearer, provider, hasState, lookup)
    \/ \E bearer \in CatalogBearers, path \in CatalogPaths : Extract(bearer, path)
    \/ Respond

SpecJwt == InitJwt /\ [][NextJwt]_vars

(***************************************************************************)
(* C11  Profile construction: every successful Service::issue(id,          *)
(* provider, recipient, ttl) returns a profile with                        *)
(* share_credentials_version 1, the endpoint                               *)
(* "<server_addr>/sharing/<provider>" and a bearer token whose claims are  *)
(* iss = server_addr, sub = recipient, aud = [endpoint], jti = id and      *)
(* exp = the clock's seconds + ttl; expiration_time renders the instant    *)
(* exp.                                                                    *)
(***************************************************************************)
\* the epoch seconds of a rendered datetime
InstantOf(rendered) ==
    rendered[1] * 86400 + rendered[2] * 3600 + rendered[3] * 60 + rendered[4]

\* "/sharing/" between the server address and the provider
EndpointOf(provider) ==
    cfg.server_addr \o <<47>> \o <<115, 104, 97, 114, 105, 110, 103>> \o <<47>> \o provider

C11_ProfileConstruction ==
    (issued # None /\ issued.res.ok) =>
        LET profile == issued.res.val
            claims  == profile.bearer_token.claims
        IN  /\ profile.share_credentials_version = 1
            /\ profile.endpoint = EndpointOf(issued.provider)
            /\ claims.iss = cfg.server_addr
            /\ claims.sub = issued.recipient
            /\ claims.aud = <<EndpointOf(issued.provider)>>
            /\ claims.jti = issued.id
            /\ claims.exp = issued.at.secs + issued.ttl
            /\ InstantOf(profile.expiration_time) = claims.exp
            /\ profile.bearer_token.sig
                   = <<profile.bearer_token.alg, claims, cfg.jwt_secret>>

\* a profile was issued for "jane" to "bob" with a ttl beyond the leeway
C11_Witness ==
    /\ issued # None
    /\ issued.res.ok
    /\ issued.provider = <<106, 97, 110, 101>>
    /\ issued.recipient = <<98, 111, 98>>
    /\ issued.ttl > Leeway
    /\ issued.at.secs > StartClock

(***************************************************************************)
(* C12  Profile round trip: the bearer token of a profile issued with      *)
(* ttl > 0 for a provider passes the claims verification of as_sharing     *)
(* (decoding with the same secret, on the path of that provider) at every  *)
(* time before its expiry.                                                 *)
(***************************************************************************)
\* the request presents the bearer token of the issued profile
PresentsIssued ==
    /\ request # None
    /\ request.fn = "as_sharing"
    /\ issued # None
    /\ issued.res.ok
    /\ request.bearer = issued.res.val.bearer_token

\* the request got past the header check and the decoding of the claims
ClaimsVerified == request.res \notin {Err("BadRequest"), Err("Unauthorized")}

C12_ProfileRoundTrip ==
    (/\ PresentsIssued
     /\ issued.ttl > 0
     /\ request.provider = issued.provider
     /\ request.at.secs < issued.res.val.bearer_token.claims.exp)
        => ClaimsVerified

\* the token of a profile was presented on its provider's path a leeway
\* after its issuance and before its expiry, and the request went through
C12_Witness ==
    /\ PresentsIssued
    /\ issued.ttl > 0
    /\ request.provider = issued.provider
    /\ request.at.secs >= issued.at.secs + Leeway
    /\ request.at.secs < issued.res.val.bearer_token.claims.exp
    /\ request.res = Ok("next")

(***************************************************************************)
(* C13  Issuer and audience enforcement: as_sharing lets a bearer token    *)
(* through on the path of provider P only if the token's iss is the        *)
(* configured server address and "<server_addr>/sharing/P" is a member of  *)
(* its aud; a token issued for provider A is rejected on the path of a     *)
(* provider B # A, also when its signature is valid and it is unexpired.   *)
(***************************************************************************)
\* the request carries a token that has claims
PresentsClaims ==
    /\ request # None
    /\ request.fn = "as_sharing"
    /\ request.bearer # None
    /\ "claims" \in DOMAIN request.bearer

C13_IssuerAudience ==
    /\ (PresentsClaims /\ ClaimsVerified) =>
            /\ request.bearer.claims.iss = cfg.server_addr
            /\ EndpointOf(request.provider) \in Range(request.bearer.claims.aud)
    /\ (PresentsIssued /\ request.provider # issued.provider) =>
            request.res = Err("Unauthorized")

\* an unexpired token issued for one provider was presented on the path of
\* the other and rejected
C13_Witness ==
    /\ PresentsIssued
    /\ request.provider # issued.provider
    /\ request.at.secs < issued.res.val.bearer_token.claims.exp
    /\ request.hasState
    /\ request.lookup.ok
    /\ request.res = Err("Unauthorized")

\* a token of another issuer, signed with the server's key, was rejected on
\* the path of its audience
C13_WitnessIssuer ==
    /\ PresentsClaims
    /\ request.bearer.sig = <<"HS256", request.bearer.claims, cfg.jwt_secret>>
    /\ "iss" \in DOMAIN request.bearer.claims
    /\ request.bearer.claims.iss # cfg.server_addr
    /\ EndpointOf(request.provider) \in Range(request.bearer.claims.aud)
    /\ request.res = Err("Unauthorized")

(***************************************************************************)
(* C14  as claimed: a token of the claims scheme whose exp is earlier      *)
(* than the current time is rejected by the claims verification (of        *)
(* as_sharing and of the Claims extractor), so that a token issued with    *)
(* ttl = T is rejected once T seconds have passed since its issuance.      *)
(***************************************************************************)
\* the request carries a token whose claims have an exp
CarriesExp ==
    /\ request # None
    /\ request.bearer # None
    /\ "claims" \in DOMAIN request.bearer
    /\ "exp" \in DOMAIN request.bearer.claims

C14_ExpiredRejected ==
    (CarriesExp /\ request.bearer.claims.exp < request.at.secs) =>
        request.res = Err("Unauthorized")

(***************************************************************************)
(* C14  amended: a token of the claims scheme is rejected by the claims    *)
(* verification of as_sharing and of the Claims extractor once its exp is  *)
(* more than the leeway of 60 seconds earlier than the current time: a     *)
(* token issued with ttl = T is rejected once more than T + 60 seconds     *)
(* have passed since its issuance, and until then the expiry check lets    *)
(* it through.                                                             *)
(***************************************************************************)
\* the request presents to the extractor a token the server signed for a
\* role serde knows
PresentsCatalogToken ==
    /\ CarriesExp
    /\ request.fn = "from_request_parts"
    /\ "role" \in DOMAIN request.bearer.claims
    /\ request.bearer.claims.role \in {"admin", "guest"}
    /\ request.bearer.sig = <<"HS256", request.bearer.claims, cfg.jwt_secret>>

C14_ExpiredBeyondLeeway ==
    /\ (CarriesExp /\ request.bearer.claims.exp < request.at.secs - Leeway) =>
            request.res = Err("Unauthorized")
    /\ (/\ PresentsIssued
        /\ request.provider = issued.provider
        /\ request.at.secs <= issued.at.secs + issued.ttl + Leeway) =>
            ClaimsVerified
    /\ (/\ PresentsCatalogToken
        /\ request.bearer.claims.role = "admin"
        /\ request.bearer.claims.exp >= request.at.secs - Leeway) =>
            request.res.ok

\* the token of a profile was presented on its provider's path more than
\* ttl + 60 seconds after its issuance, and rejected
C14_Witness ==
    /\ PresentsIssued
    /\ request.provider = issued.provider
    /\ request.hasState
    /\ request.lookup.ok
    /\ request.at.secs = issued.at.secs + issued.ttl + Leeway + 1
    /\ request.res = Err("Unauthorized")

\* the token of a profile was let through after its expiry, within the leeway
C14_WitnessLeeway ==
    /\ PresentsIssued
    /\ request.at.secs = issued.at.secs + issued.ttl + Leeway
    /\ request.res = Ok("next")

(***************************************************************************)
(* C15  Non-leaking failure: whichever check a presented bearer token      *)
(* fails in as_sharing (a bad signature, an expired exp, another issuer,   *)
(* another audience, a malformed token), the answer is the same            *)
(* Error::Unauthorized.                                                    *)
(***************************************************************************)
\* the checks a presented bearer token fails, told from the token, the
\* path and the time of the request
FailedChecks ==
    LET t == request.bearer
    IN  IF "claims" \notin DOMAIN t THEN {"malformed"}
        ELSE (IF t.alg # "HS256" THEN {"algorithm"} ELSE {})
             \cup (IF t.sig # <<t.alg, t.claims, cfg.jwt_secret>>
                   THEN {"signature"} ELSE {})
             \cup (IF ~(SharingClaimsFields \subseteq DOMAIN t.claims)
                   THEN {"malformed"}
                   ELSE (IF t.claims.exp < request.at.secs - Leeway
                         THEN {"expired"} ELSE {})
                        \cup (IF t.claims.iss # cfg.server_addr
                              THEN {"issuer"} ELSE {})
                        \cup (IF EndpointOf(request.provider) \notin Range(t.claims.aud)
                              THEN {"audience"} ELSE {}))

C15_NonLeakingFailure ==
    (/\ request # None
     /\ request.fn = "as_sharing"
     /\ request.bearer # None) =>
        /\ FailedChecks # {} => request.res = Err("Unauthorized")
        /\ FailedChecks = {} => request.res # Err("Unauthorized")

\* a token that fails the expiry check alone was answered Unauthorized
C15_Witness ==
    /\ request # None
    /\ request.fn = "as_sharing"
    /\ request.bearer # None
    /\ FailedChecks = {"expired"}
    /\ request.res = Err("Unauthorized")

\* so was a token that fails the signature check alone
C15_WitnessSignature ==
    /\ request # None
    /\ request.fn = "as_sharing"
    /\ request.bearer # None
    /\ FailedChecks = {"signature"}
    /\ request.res = Err("Unauthorized")

(***************************************************************************)
(* The role specification: required_role_of is called with paths made of   *)
(* up to two leading separators, a first segment and a rest.               *)
(***************************************************************************)
\* "", "/", "//"
LeadingSlashes == {<<>>, <<47>>, <<47, 47>>}
\* "admin", "Admin", "ADMIN", "aDmIn", "guest", "Guest", "shares", "adm",
\* "admins", "admin.", "root" and the empty segment
FirstSegments ==
    {<<97, 100, 109, 105, 110>>, <<65, 100, 109, 105, 110>>, <<65, 68, 77, 73, 78>>, <<97, 68, 109, 73, 110>>,
     <<103, 117, 101, 115, 116>>, <<71, 117, 101, 115, 116>>, <<115, 104, 97, 114, 101, 115>>,
     <<97, 100, 109>>, <<97, 100, 109, 105, 110, 115>>, <<97, 100, 109, 105, 110, 46>>,
     <<114, 111, 111, 116>>, <<>>}
\* "", "/", "/thing", "/admin"
PathRests == {<<>>, <<47>>, <<47, 116, 104, 105, 110, 103>>, <<47, 97, 100, 109, 105, 110>>}

RolePaths ==
    {lead \o first \o rest :
        lead \in LeadingSlashes, first \in FirstSegments, rest \in PathRests}

InitRole ==
    /\ now = [secs |-> StartClock, ms |-> 0]
    /\ cfg = [secret |-> <<107>>, hasher |-> Sha256Name,
              server_addr |-> ServerAddr, jwt_secret |-> JwtSecret]
    /\ SECRET = Uninit
    /\ HASHER = Uninit
    /\ signed = None
    /\ verified = None
    /\ call = None
    /\ issued = None
    /\ request = None
    /\ accounts = {}
    /\ tokens = {}
    /\ threads = None

\* required_role_of(path)
CallRequiredRoleOf(path) ==
    /\ call' = [fn |-> "required_role_of", arg |-> path, res |-> RequiredRoleOf(path)]
    /\ UNCHANGED <<now, cfg, SECRET, HASHER, signed, verified, issued, request,
                 accounts, tokens, threads>>

NextRole == \E path \in RolePaths : CallRequiredRoleOf(path)

SpecRole == InitRole /\ [][NextRole]_vars

(***************************************************************************)
(* C16  required_role_of(path) strips the leading separators, takes the    *)
(* first segment of the path and returns the Role that segment parses to,  *)
(* in any mix of cases; a segment that parses to no Role, or an empty      *)
(* one, gives Guest.  "/admin/thing" requires Admin and "/shares"          *)
(* requires Guest; the result depends on the path alone.                   *)
(***************************************************************************)
\* the position of the first byte of s from position i on that is (or, for
\* FALSE, is not) a separator; Len(s) + 1 if there is none
FirstFrom(s, i, separator) ==
    IF \E j \in i..Len(s) : (s[j] = 47) = separator
    THEN CHOOSE j \in i..Len(s) :
            /\ (s[j] = 47) = separator
            /\ \A k \in i..(j - 1) : (s[k] = 47) # separator
    ELSE Len(s) + 1

\* the bytes between the leading separators and the next separator
LeadSegment(s) ==
    LET from == FirstFrom(s, 1, FALSE)
    IN  SubSeq(s, from, FirstFrom(s, from, TRUE) - 1)

\* s is the word in some mix of cases
SpellsWord(s, word) ==
    /\ Len(s) = Len(word)
    /\ \A i \in 1..Len(s) : SameIgnoringCase(s[i], word[i])

C16_RequiredRole ==
    (call # None /\ call.fn = "required_role_of") =>
        /\ call.res \in {"Admin", "Guest"}
        /\ call.res = "Admin" <=> SpellsWord(LeadSegment(call.arg), <<97, 100, 109, 105, 110>>)
        /\ call.arg = <<47, 97, 100, 109, 105, 110, 47, 116, 104, 105, 110, 103>> => call.res = "Admin"
        /\ call.arg = <<47, 115, 104, 97, 114, 101, 115>> => call.res = "Guest"
        /\ call.res = RequiredRoleOf(call.arg)

\* "/admin/thing" was found to require Admin
C16_Witness ==
    /\ call # None
    /\ call.fn = "required_role_of"
    /\ call.arg = <<47, 97, 100, 109, 105, 110, 47, 116, 104, 105, 110, 103>>
    /\ call.res = "Admin"

\* "/shares" was found to require Guest
C16_WitnessGuest ==
    /\ call # None
    /\ call.fn = "required_role_of"
    /\ call.arg = <<47, 115, 104, 97, 114, 101, 115>>
    /\ call.res = "Guest"

(***************************************************************************)
(* C17  Role gating in the Claims extractor: for a bearer token that       *)
(* decodes, claims of role Guest are rejected with Unauthorized when the   *)
(* path requires Admin and accepted when it requires Guest; claims of      *)
(* role Admin are accepted on every path; a missing bearer token or one    *)
(* that does not decode gives Unauthorized.                                *)
(***************************************************************************)
\* the request went to the Claims extractor
Extracted == request # None /\ request.fn = "from_request_parts"

\* the extractor's request presents a token that decodes: signed by the
\* server for a role serde knows and not expired beyond the leeway
Decodes ==
    /\ PresentsCatalogToken
    /\ request.bearer.claims.exp >= request.at.secs - Leeway

\* the path of the extractor's request requires Admin
RequiresAdmin == SpellsWord(LeadSegment(request.path), <<97, 100, 109, 105, 110>>)

C17_RoleGating ==
    Extracted =>
        /\ ~Decodes => request.res = Err("Unauthorized")
        /\ (Decodes /\ request.bearer.claims.role = "guest" /\ RequiresAdmin) =>
                request.res = Err("Unauthorized")
        /\ (Decodes /\ request.bearer.claims.role = "guest" /\ ~RequiresAdmin) =>
                request.res = Ok(request.bearer.claims)
        /\ (Decodes /\ request.bearer.claims.role = "admin") =>
                request.res = Ok(request.bearer.claims)

\* a guest's token that decodes was rejected on "/Admin"
C17_Witness ==
    /\ Extracted
    /\ Decodes
    /\ request.bearer.claims.role = "guest"
    /\ request.path = <<47, 65, 100, 109, 105, 110>>
    /\ request.res = Err("Unauthorized")

\* an admin's token that decodes was accepted on "/admin/thing"
C17_WitnessAdmin ==
    /\ Extracted
    /\ Decodes
    /\ request.bearer.claims.role = "admin"
    /\ request.path = <<47, 97, 100, 109, 105, 110, 47, 116, 104, 105, 110, 103>>
    /\ request.res.ok

(***************************************************************************)
(* server/utilities/signed_url.rs: ObjectStore::from_str.  Url::parse of   *)
(* the url crate is modelled for the URLs of the object-store              *)
(* specification: a scheme, ":" and either "//" with a host and a path or  *)
(* a path alone, over letters, digits, '.' and '/', with white space       *)
(* around; no userinfo, port, query, fragment, dot segment or byte that    *)
(* is percent-encoded occurs.                                              *)
(***************************************************************************)
\* the input without its leading and trailing C0 control bytes and spaces
RECURSIVE TrimC0(_)
TrimC0(s) ==
    IF s = <<>> THEN s
    ELSE IF Head(s) <= 32 THEN TrimC0(Tail(s))
    ELSE IF s[Len(s)] <= 32 THEN TrimC0(SubSeq(s, 1, Len(s) - 1))
    ELSE s

IsAlpha(c) == (c >= 65 /\ c <= 90) \/ (c >= 97 /\ c <= 122)

\* the bytes of a scheme after its first: letters, digits, '+', '-', '.'
IsSchemeChar(c) == IsAlpha(c) \/ (c >= 48 /\ c <= 57) \/ c \in {43, 45, 46}

\* the position of the first ':' of s, 0 if there is none
ColonAt(s) ==
    IF \E i \in 1..Len(s) : s[i] = 58
    THEN CHOOSE i \in 1..Len(s) : s[i] = 58 /\ \A j \in 1..(i - 1) : s[j] # 58
    ELSE 0

\* the special schemes of the URL standard: "http", "https", "ws", "wss",
\* "ftp", "file"
SpecialSchemes ==
    {<<104, 116, 116, 112>>, <<104, 116, 116, 112, 115>>, <<119, 115>>, <<119, 115, 115>>, <<102, 116, 112>>, <<102, 105, 108, 101>>}

StartsWith(s, prefix) ==
    Len(s) >= Len(prefix) /\ SubSeq(s, 1, Len(prefix)) = prefix

\* Url::parse(input): the scheme is lower-cased; after "//" the host runs
\* to the next '/', is lower-cased for a special scheme and kept as it is
\* otherwise (an empty one is no host), and the empty path of a special
\* scheme becomes "/"; without "//" the rest is the path.  str is the
\* serialisation as_str() returns.
UrlParse(input) ==
    LET s == TrimC0(input)
        c == ColonAt(s)
    IN  IF c <= 1 \/ ~IsAlpha(s[1]) \/ \E i \in 2..(c - 1) : ~IsSchemeChar(s[i])
        THEN Err("RelativeUrlWithoutBase")
        ELSE LET scheme == AsciiLower(SubSeq(s, 1, c - 1))
                 rest   == SubSeq(s, c + 1, Len(s))
             IN  IF StartsWith(rest, <<47, 47>>)
                 THEN LET auth    == SubSeq(rest, 3, Len(rest))
                          slash   == FirstFrom(auth, 1, TRUE)
                          rawhost == SubSeq(auth, 1, slash - 1)
                          rawpath == SubSeq(auth, slash, Len(auth))
                      IN  IF scheme \in SpecialSchemes
                          THEN IF rawhost = <<>> THEN Err("EmptyHost")
                               ELSE LET host == AsciiLower(rawhost)
                                        path == IF rawpath = <<>> THEN <<47>> ELSE rawpath
                                    IN  Ok([scheme |-> scheme, host |-> Some(host),
                                            path |-> path,
                                            str |-> scheme \o <<58, 47, 47>> \o host \o path])
                          ELSE Ok([scheme |-> scheme,
                                   host |-> IF rawhost = <<>> THEN None ELSE Some(rawhost),
                                   path |-> rawpath,
                                   str |-> scheme \o <<58, 47, 47>> \o rawhost \o rawpath])
                 ELSE Ok([scheme |-> scheme, host |-> None, path |-> rest,
                          str |-> scheme \o <<58>> \o rest])

\* Option<&str>::unwrap_or("")
UnwrapOrEmpty(opt) == IF opt = None THEN <<>> ELSE opt.some

\* StripPrefixSlash with a fault: every leading '/' is removed
StripAllSlashes(path) == Some(TrimStartSlashes(path))

\* str::strip_prefix('/')
StripPrefixSlash(path) ==
    IF path # <<>> /\ Head(path) = 47 THEN Some(Tail(path)) ELSE None

\* ObjectStoreFromStr with a fault: the scheme "s3a" is not known
ObjectStoreFromStrNoS3a(input) ==
    LET url == Context(UrlParse(input), "failed to parse URL")
    IN  IF ~url.ok THEN url
        ELSE LET bucket == UnwrapOrEmpty(url.val.host)
                 path   == UnwrapOrEmpty(StripPrefixSlash(url.val.path))
             IN  CASE url.val.scheme = <<115, 51>>
                        -> Ok([variant |-> "S3", url |-> url.val.str,
                               bucket |-> bucket, path |-> path])
                   [] url.val.scheme = <<103, 115>>
                        -> Ok([variant |-> "Gcs", url |-> url.val.str,
                               bucket |-> bucket, path |-> path])
                   [] OTHER
                        -> Ok([variant |-> "NotAvailable", url |-> url.val.str])

\* ObjectStore::from_str
ObjectStoreFromStr(input) ==
    LET url == Context(UrlParse(input), "failed to parse URL")
    IN  IF ~url.ok THEN url
        ELSE LET bucket == UnwrapOrEmpty(url.val.host)
                 path   == UnwrapOrEmpty(StripPrefixSlash(url.val.path))
             IN  CASE url.val.scheme = <<115, 51>>
                        -> Ok([variant |-> "S3", url |-> url.val.str,
                               bucket |-> bucket, path |-> path])
                   [] url.val.scheme = <<115, 51, 97>>
                        -> Ok([variant |-> "S3", url |-> url.val.str,
                               bucket |-> bucket, path |-> path])
                   [] url.val.scheme = <<103, 115>>
                        -> Ok([variant |-> "Gcs", url |-> url.val.str,
                               bucket |-> bucket, path |-> path])
                   [] OTHER
                        -> Ok([variant |-> "NotAvailable", url |-> url.val.str])

(***************************************************************************)
(* The object-store specification: from_str is called with strings made    *)
(* of a scheme, a separator, a host and a path, with white space before    *)
(* or after.                                                               *)
(***************************************************************************)
\* nothing around, a space before, a line feed after
UrlWraps == {<<<<>>, <<>>>>, <<<<32>>, <<>>>>, <<<<>>, <<10>>>>}
\* "s3", "S3", "s3a", "gs", "Gs", "https", "Http", "abfss", "3s" and no scheme
UrlSchemes ==
    {<<115, 51>>, <<83, 51>>, <<115, 51, 97>>, <<103, 115>>, <<71, 115>>,
     <<104, 116, 116, 112, 115>>, <<72, 116, 116, 112>>, <<97, 98, 102, 115, 115>>, <<51, 115>>, <<>>}
\* "://", ":" and no separator
UrlSeparators == {<<58, 47, 47>>, <<58>>, <<>>}
\* "bucket", "Bucket", "my.bucket" and no host
UrlHosts == {<<98, 117, 99, 107, 101, 116>>, <<66, 117, 99, 107, 101, 116>>, <<109, 121, 46, 98, 117, 99, 107, 101, 116>>, <<>>}
\* "", "/", "/key", "/key/sub", "//x"
UrlPaths == {<<>>, <<47>>, <<47, 107, 101, 121>>, <<47, 107, 101, 121, 47, 115, 117, 98>>, <<47, 47, 120>>}

\* a special scheme is given "//" and a host
Modelled(scheme, separator, host) ==
    AsciiLower(scheme) \in SpecialSchemes => (separator = <<58, 47, 47>> /\ host # <<>>)

UrlParts ==
    {x \in UrlWraps \X UrlSchemes \X UrlSeparators \X UrlHosts \X UrlPaths :
        Modelled(x[2], x[3], x[4])}

UrlInputs == {x[1][1] \o x[2] \o x[3] \o x[4] \o x[5] \o x[1][2] : x \in UrlParts}

InitUrl ==
    /\ now = [secs |-> StartClock, ms |-> 0]
    /\ cfg = [secret |-> <<107>>, hasher |-> Sha256Name,
              server_addr |-> ServerAddr, jwt_secret |-> JwtSecret]
    /\ SECRET = Uninit
    /\ HASHER = Uninit
    /\ signed = None
    /\ verified = None
    /\ call = None
    /\ issued = None
    /\ request = None
    /\ accounts = {}
    /\ tokens = {}
    /\ threads = None

\* ObjectStore::from_str(input)
CallObjectStoreFromStr(input) ==
    /\ call' = [fn |-> "ObjectStore::from_str", arg |-> input,
                res |-> ObjectStoreFromStr(input)]
    /\ UNCHANGED <<now, cfg, SECRET, HASHER, signed, verified, issued, request,
                 accounts, tokens, threads>>

NextUrl == \E input \in UrlInputs : CallObjectStoreFromStr(input)

SpecUrl == InitUrl /\ [][NextUrl]_vars

(***************************************************************************)
(* C18  Scheme dispatch is total: ObjectStore::from_str returns an error   *)
(* if and only if the parsing of the URL fails; every URL that parses      *)
(* maps to exactly one variant, determined by its scheme alone: s3 and     *)
(* s3a to <<115, 51>>, gs to Gcs, any other scheme to NotAvailable, which carries   *)
(* the URL only.                                                           *)
(***************************************************************************)
\* from_str was called
Resolved == call # None /\ call.fn = "ObjectStore::from_str"

\* the scheme of an input: the bytes before its first ':', in lower case
InputScheme(input) ==
    AsciiLower(SubSeq(TrimC0(input), 1, ColonAt(TrimC0(input)) - 1))

C18_DispatchTotal ==
    Resolved =>
        /\ call.res.ok <=> UrlParse(call.arg).ok
        /\ ColonAt(call.arg) = 0 => ~call.res.ok
        /\ call.res.ok =>
              /\ call.res.val.variant \in {"S3", "Gcs", "NotAvailable"}
              /\ call.res.val.variant = "S3" <=> InputScheme(call.arg) \in {<<115, 51>>, <<115, 51, 97>>}
              /\ call.res.val.variant = "Gcs" <=> InputScheme(call.arg) = <<103, 115>>
              /\ call.res.val.variant = "NotAvailable" =>
                    DOMAIN call.res.val = {"variant", "url"}

\* "s3a://bucket/key" was resolved to an <<115, 51>> location
C18_Witness ==
    /\ Resolved
    /\ call.arg = <<115, 51, 97, 58, 47, 47, 98, 117, 99, 107, 101, 116, 47, 107, 101, 121>>
    /\ call.res.ok
    /\ call.res.val.variant = "S3"

\* "https://my.bucket/key" was resolved to NotAvailable
C18_WitnessOther ==
    /\ Resolved
    /\ call.arg = <<104, 116, 116, 112, 115, 58, 47, 47, 109, 121, 46, 98, 117, 99, 107, 101, 116, 47, 107, 101, 121>>
    /\ call.res.ok
    /\ call.res.val.variant = "NotAvailable"

\* a string without a scheme was refused
C18_WitnessError ==
    /\ Resolved
    /\ call.arg = <<98, 117, 99, 107, 101, 116, 47, 107, 101, 121>>
    /\ ~call.res.ok

(***************************************************************************)
(* C19  Bucket and path extraction: for an s3, s3a or gs URL               *)
(* "<scheme>://<bucket>/<path>" the location has the bucket <bucket>, the  *)
(* URL's domain, and the path <path>, the URL's path without its single    *)
(* leading '/': "s3://bucket/key/sub" gives the bucket "bucket" and the    *)
(* path "key/sub"; <<115, 51>> and Gcs follow the same rule.                        *)
(***************************************************************************)
\* what follows "://" in an input
AfterSeparator(input) ==
    SubSeq(TrimC0(input), ColonAt(TrimC0(input)) + 3, Len(TrimC0(input)))

\* the input is "<scheme>://<bucket>/<path>" with a bucket
HasBucketAndPath(input) ==
    /\ StartsWith(SubSeq(TrimC0(input), ColonAt(TrimC0(input)) + 1, Len(TrimC0(input))),
                  <<47, 47>>)
    /\ FirstFrom(AfterSeparator(input), 1, TRUE) > 1
    /\ FirstFrom(AfterSeparator(input), 1, TRUE) <= Len(AfterSeparator(input))

C19_BucketPath ==
    (/\ Resolved
     /\ call.res.ok
     /\ call.res.val.variant \in {"S3", "Gcs"}
     /\ HasBucketAndPath(call.arg)) =>
        LET after == AfterSeparator(call.arg)
            slash == FirstFrom(after, 1, TRUE)
        IN  /\ call.res.val.bucket = SubSeq(after, 1, slash - 1)
            /\ call.res.val.path = SubSeq(after, slash + 1, Len(after))
            /\ call.arg = <<115, 51, 58, 47, 47, 98, 117, 99, 107, 101, 116, 47, 107, 101, 121, 47, 115, 117, 98>> =>
                    (call.res.val.bucket = <<98, 117, 99, 107, 101, 116>> /\ call.res.val.path = <<107, 101, 121, 47, 115, 117, 98>>)

\* "s3://bucket/key/sub" was resolved to the bucket "bucket" and the path
\* "key/sub"
C19_Witness ==
    /\ Resolved
    /\ call.arg = <<115, 51, 58, 47, 47, 98, 117, 99, 107, 101, 116, 47, 107, 101, 121, 47, 115, 117, 98>>
    /\ call.res.ok
    /\ call.res.val.bucket = <<98, 117, 99, 107, 101, 116>>
    /\ call.res.val.path = <<107, 101, 121, 47, 115, 117, 98>>

\* "gs://my.bucket//x" was resolved to the path "/x"
C19_WitnessGcs ==
    /\ Resolved
    /\ call.arg = <<103, 115, 58, 47, 47, 109, 121, 46, 98, 117, 99, 107, 101, 116, 47, 47, 120>>
    /\ call.res.ok
    /\ call.res.val.variant = "Gcs"
    /\ call.res.val.path = <<47, 120>>

(***************************************************************************)
(* C20  as claimed: for every input that parses, the url field of the      *)
(* resulting S3, Gcs or NotAvailable location is equal to the input        *)
(* string passed to from_str.                                              *)
(***************************************************************************)
C20_UrlRetained ==
    (Resolved /\ call.res.ok) => call.res.val.url = call.arg

\* "S3://bucket/key" was resolved to a location whose url is
\* "s3://bucket/key"
C20_Normalised ==
    /\ Resolved
    /\ call.arg = <<83, 51, 58, 47, 47, 98, 117, 99, 107, 101, 116, 47, 107, 101, 121>>
    /\ call.res.ok
    /\ call.res.val.url = <<115, 51, 58, 47, 47, 98, 117, 99, 107, 101, 116, 47, 107, 101, 121>>

(***************************************************************************)
(* config.rs 13-18 under concurrency.  SECRET and HASHER are               *)
(* once_cell::sync::Lazy statics: Deref forces the cell, the first thread  *)
(* to find it incomplete claims it and runs the initialiser, a thread      *)
(* that finds it claimed blocks until the value is stored, and a thread    *)
(* that finds it complete reads the stored value.  Request threads         *)
(* dereference the cells in sign and verify (token.rs 61-136).             *)
(***************************************************************************)
MaxThreads == 2

Threads == 1..MaxThreads

Cells == {"secret", "hasher"}

\* the cell while its initialiser runs
Running == [set |-> FALSE, running |-> TRUE]

CellOf(c) == IF c = "secret" THEN SECRET ELSE HASHER

\* the closure given to Lazy::new for the cell
InitOf(c) == IF c = "secret" THEN SecretInit ELSE HasherInit

\* the forcing thread takes the cell over without looking for a running
\* initialiser
LazyClaimsUnsynchronised(cell) == ~cell.set

\* the forcing thread becomes the initialiser only if the cell is incomplete
\* and no other thread is running the initialiser
LazyClaims(cell) == ~cell.set /\ cell # Running

IdleThread ==
    [pc |-> "idle", cell |-> "", inits |-> {}, waited |-> {},
     secrets |-> {}, hashers |-> {}]

\* the thread has the value of the cell in hand
Observe(th, c, v) ==
    IF c = "secret"
    THEN [th EXCEPT !.pc = "idle", !.cell = "", !.secrets = @ \cup {v}]
    ELSE [th EXCEPT !.pc = "idle", !.cell = "", !.hashers = @ \cup {v}]

StoreCell(c, v) ==
    IF c = "secret"
    THEN SECRET' = v /\ UNCHANGED HASHER
    ELSE HASHER' = v /\ UNCHANGED SECRET

InitLazy ==
    /\ now = [secs |-> 0, ms |-> 0]
    /\ cfg \in [secret : Secrets, hasher : HasherNames,
                server_addr : {ServerAddr}, jwt_secret : {JwtSecret}]
    /\ SECRET = Uninit
    /\ HASHER = Uninit
    /\ signed = None
    /\ verified = None
    /\ call = None
    /\ issued = None
    /\ request = None
    /\ accounts = {}
    /\ tokens = {}
    /\ threads = [t \in Threads |-> IdleThread]

\* a thread dereferences SECRET or HASHER
LazyForce(t, c) ==
    /\ threads[t].pc = "idle"
    /\ IF CellOf(c).set
       THEN /\ threads' = [threads EXCEPT ![t] = Observe(@, c, CellOf(c).val)]
            /\ UNCHANGED <<SECRET, HASHER>>
       ELSE IF LazyClaims(CellOf(c))
       THEN /\ threads' = [threads EXCEPT ![t].pc = "init", ![t].cell = c]
            /\ StoreCell(c, Running)
       ELSE /\ threads' = [threads EXCEPT ![t].pc = "wait", ![t].cell = c]
            /\ UNCHANGED <<SECRET, HASHER>>
    /\ UNCHANGED <<now, cfg, signed, verified, call, issued, request,
                   accounts, tokens>>

\* the initialising thread stores the value its closure returned
LazyInit(t) ==
    /\ threads[t].pc = "init"
    /\ LET c == threads[t].cell
           v == InitOf(c)
       IN  /\ StoreCell(c, Filled(v))
           /\ threads' = [threads EXCEPT
                  ![t] = [Observe(@, c, v) EXCEPT !.inits = @ \cup {c}]]
    /\ UNCHANGED <<now, cfg, signed, verified, call, issued, request,
                   accounts, tokens>>

\* a blocked thread resumes once the value is stored
LazyWake(t) ==
    /\ threads[t].pc = "wait"
    /\ CellOf(threads[t].cell).set
    /\ LET c == threads[t].cell
       IN  threads' = [threads EXCEPT
               ![t] = [Observe(@, c, CellOf(c).val) EXCEPT
                           !.waited = @ \cup {c}]]
    /\ UNCHANGED <<now, cfg, SECRET, HASHER, signed, verified, call, issued,
                   request, accounts, tokens>>

NextLazy ==
    \/ \E t \in Threads, c \in Cells : LazyForce(t, c)
    \/ \E t \in Threads : LazyInit(t)
    \/ \E t \in Threads : LazyWake(t)

SpecLazy == InitLazy /\ [][NextLazy]_vars

\* the threads that ran the initialiser of the cell
Initialisers(c) == {t \in Threads : c \in threads[t].inits}

\* the values the threads have read from the cell
Observed(c) ==
    UNION {IF c = "secret" THEN threads[t].secrets ELSE threads[t].hashers :
           t \in Threads}

(***************************************************************************)
(* C21  SECRET and HASHER are each initialised at most once, by the first  *)
(* access, a stored value is never written again, no thread reads a cell   *)
(* before some thread initialised it, and all threads read the same secret *)
(* and the same hasher, the ones the configuration gives.                  *)
(***************************************************************************)
C21_SingleInitialisation ==
    [][/\ \A c \in Cells :
            /\ Cardinality(Initialisers(c)) <= 1
            /\ Observed(c) # {} => Cardinality(Initialisers(c)) = 1
            /\ Observed(c) \subseteq {InitOf(c)}
       /\ SECRET.set => SECRET' = SECRET
       /\ HASHER.set => HASHER' = HASHER]_vars

\* two threads raced on the first access of SECRET: one initialised it, the
\* other was blocked meanwhile, and both have read the secret
C21_Witness ==
    /\ threads # None
    /\ threads[1].secrets # {}
    /\ threads[2].secrets # {}
    /\ "secret" \in threads[1].inits
    /\ "secret" \in threads[2].waited
    /\ threads[1].hashers # {}
    /\ "hasher" \in threads[2].inits

(***************************************************************************)
(* C27  Expiry cannot be extended by the holder: a token that keeps the    *)
(* token-id and mac segments of a signed token and has another expiry      *)
(* segment is refused by verify, under each of the four hashers.           *)
(***************************************************************************)
TamperedExp ==
    /\ SignedOk
    /\ verified # None
    /\ Len(Segments(verified.token)) = 3
    /\ Segments(verified.token)[1] = Segments(signed.res.val)[1]
    /\ Segments(verified.token)[2] # Segments(signed.res.val)[2]
    /\ Segments(verified.token)[3] = Segments(signed.res.val)[3]

C27_ExpiryNotExtensible == TamperedExp => ~verified.res.ok

\* the expiry of a signed token was multiplied by sixteen and the token was
\* refused with a MAC error under the hasher it was signed with
C27_Witness ==
    /\ TamperedExp
    /\ verified.hasher = signed.hasher
    /\ Segments(verified.token)[2] = Segments(signed.res.val)[2] \o <<48>>
    /\ verified.res = MacError

\* a signed token whose expiry was replaced was presented under each hasher
C27_WitnessSha224 ==
    /\ TamperedExp
    /\ signed.hasher = "Sha224"
    /\ verified.hasher = "Sha224"
    /\ Segments(verified.token)[2] = <<102, 102, 102, 102>>
    /\ ~verified.res.ok

(***************************************************************************)
(* The stores.  The account table holds rows [id, name, email, image,      *)
(* social_platform, social_id, social_name] (repositories/account.rs), the *)
(* token table rows [id, value, active, created_by, created_for]           *)
(* (repositories/token.rs).                                                *)
(***************************************************************************)
AccountRow(id, name, email, image, social_platform, social_id, social_name) ==
    [id |-> id, name |-> name, email |-> email, image |-> image,
     social_platform |-> social_platform, social_id |-> social_id,
     social_name |-> social_name]

TokenRow(id, value, active, created_by, created_for) ==
    [id |-> id, value |-> value, active |-> active,
     created_by |-> created_by, created_for |-> created_for]

\* sqlx's fetch_optional: the row the query selects, if any
FetchOptional(rows) == IF rows = {} THEN None ELSE Some(CHOOSE row \in rows : TRUE)

\* Repository::select_by_name: SELECT ... FROM account WHERE name = $1; the
\* query fails when the database cannot be reached
SelectByName(name, dbUp) ==
    IF ~dbUp THEN Err("sqlx")
    ELSE Ok(FetchOptional({row \in accounts : row.name = name}))

\* AccountEntity::load_by_name: the entity of the row selected, if any
LoadByName(name, dbUp) == SelectByName(name, dbUp)

\* Repository::upsert of the token table: INSERT ... ON CONFLICT(id) DO
\* UPDATE SET every other column
TokenUpserted(row) == {r \in tokens : r.id # row.id} \cup {row}

(***************************************************************************)
(* The sharing gate: as_sharing (auth.rs 59-102) in front of the account   *)
(* and token tables.                                                       *)
(***************************************************************************)
\* accounts "u-bob" / "bob" and "u-acme" / "acme"
BobRow ==
    AccountRow(<<117, 45, 98, 111, 98>>, <<98, 111, 98>>, <<98, 64, 104>>,
               <<104, 116, 116, 112, 58, 47, 47, 105>>, <<103>>, <<49>>,
               <<66, 111, 98>>)

AcmeRow ==
    AccountRow(<<117, 45, 97, 99, 109, 101>>, <<97, 99, 109, 101>>,
               <<97, 64, 104>>, <<104, 116, 116, 112, 58, 47, 47, 105>>,
               <<103>>, <<50>>, <<65, 99, 109, 101>>)

\* decode::<Claims>(&token, &JWT_SECRET.decoding, &validation) of as_sharing
\* for a request on the path of the provider
SharingDecode(bearer, provider) ==
    JwtDecode(bearer, cfg.jwt_secret,
              [ValidationDefault EXCEPT
                  !.iss = Some({cfg.server_addr}),
                  !.aud = Some({cfg.server_addr \o SharingPath \o provider})],
              SharingClaimsFields)

\* the outcome of the load_by_name of as_sharing; the table is read only by
\* a request that got as far as the lookup
RecipientLookup(bearer, provider, hasState, dbUp) ==
    IF /\ bearer # None
       /\ SharingDecode(bearer, provider).ok
       /\ hasState
       /\ AccountNameNew(SharingDecode(bearer, provider).val.sub).ok
    THEN LoadByName(SharingDecode(bearer, provider).val.sub, dbUp)
    ELSE Ok(None)

\* as_sharing in front of the tables
AsSharingStored(bearer, provider, hasState, dbUp) ==
    AsSharing(bearer, provider, hasState,
              RecipientLookup(bearer, provider, hasState, dbUp))

InitGate ==
    /\ now = [secs |-> StartClock, ms |-> 0]
    /\ cfg = [secret |-> <<107>>, hasher |-> Sha256Name,
              server_addr |-> ServerAddr, jwt_secret |-> JwtSecret]
    /\ SECRET = Uninit
    /\ HASHER = Uninit
    /\ signed = None
    /\ verified = None
    /\ call = None
    /\ issued = None
    /\ request = None
    /\ accounts \in SUBSET {BobRow, AcmeRow}
    /\ tokens = {}
    /\ threads = None

\* a request to a sharing path passes through as_sharing, which reads the
\* account table
Share(bearer, provider, hasState, dbUp) ==
    /\ request = None
    /\ request' = [fn |-> "as_sharing", bearer |-> bearer, provider |-> provider,
                   hasState |-> hasState, dbUp |-> dbUp,
                   lookup |-> RecipientLookup(bearer, provider, hasState, dbUp),
                   at |-> now,
                   res |-> AsSharingStored(bearer, provider, hasState, dbUp)]
    /\ UNCHANGED <<now, cfg, SECRET, HASHER, signed, verified, call, issued,
                   accounts, tokens, threads>>

\* the record of the issued token is written to the token table, active or
\* not
TokenUpsert(active) ==
    /\ issued # None
    /\ issued.res.ok
    /\ LET row == TokenRow(issued.id, issued.res.val.bearer_token, active,
                           <<117, 45>> \o issued.provider,
                           <<117, 45>> \o issued.recipient)
       IN  /\ row \notin tokens
           /\ tokens' = TokenUpserted(row)
    /\ UNCHANGED <<now, cfg, SECRET, HASHER, signed, verified, call, issued,
                   request, accounts, threads>>

NextGate ==
    \/ \E provider \in Providers, recipient \in Recipients, ttl \in JwtTtlInputs :
            DoIssue(ProfileId, provider, recipient, ttl)
    \/ \E bearer \in SharingBearers, provider \in Providers, hasState \in BOOLEAN,
          dbUp \in BOOLEAN :
            Share(bearer, provider, hasState, dbUp)
    \/ \E active \in BOOLEAN : TokenUpsert(active)
    \/ Respond

SpecGate == InitGate /\ [][NextGate]_vars

\* the request in hand went through as_sharing in front of the tables
GateRequest ==
    /\ request # None
    /\ request.fn = "as_sharing"
    /\ "dbUp" \in DOMAIN request

\* as_sharing ran next.run(request)
Forwarded == GateRequest /\ request.res = Ok("next")

(***************************************************************************)
(* C25  as_sharing runs the downstream handler only when every check       *)
(* passed, and the checks are made in order: without a bearer header the   *)
(* answer is BadRequest; otherwise, with a token that fails validation,    *)
(* Unauthorized; otherwise, without the shared state, an internal error;   *)
(* otherwise, with an empty subject, ValidationFailed; otherwise, with a   *)
(* failed recipient lookup, an internal error.  The outcome of a request   *)
(* is one of these answers or the single run of the handler.               *)
(***************************************************************************)
C25_ChecksInOrder ==
    GateRequest =>
        LET header == request.bearer # None
            valid  == header /\ FailedChecks = {}
            state  == valid /\ request.hasState
            named  == state /\ Len(request.bearer.claims.sub) >= 1
            found  == named /\ request.dbUp
        IN  /\ ~header => request.res = Err("BadRequest")
            /\ (header /\ ~valid) => request.res = Err("Unauthorized")
            /\ (valid /\ ~state) =>
                    request.res = Err("failed to acquire shared state")
            /\ (state /\ ~named) => request.res = Err("ValidationFailed")
            /\ (named /\ ~found) =>
                    request.res =
                        Err("error occurred while selecting recipient from database")
            /\ found <=> request.res = Ok("next")

\* a valid token of an existing recipient was forwarded
C25_Witness ==
    /\ Forwarded
    /\ \E row \in accounts : row.name = request.bearer.claims.sub

\* a request that fails the token check and has no shared state was answered
\* Unauthorized
C25_WitnessOrder ==
    /\ GateRequest
    /\ request.bearer # None
    /\ FailedChecks = {"signature"}
    /\ ~request.hasState
    /\ ~request.dbUp
    /\ request.res = Err("Unauthorized")

\* a valid token with an empty subject was answered ValidationFailed, the
\* database being unreachable
C25_WitnessSubject ==
    /\ GateRequest
    /\ request.bearer # None
    /\ FailedChecks = {}
    /\ request.hasState
    /\ request.bearer.claims.sub = <<>>
    /\ ~request.dbUp
    /\ request.res = Err("ValidationFailed")

(***************************************************************************)
(* C26  as claimed: as_sharing forwards a request only if the sub claim of *)
(* the presented token names an account that is in the account table at    *)
(* the time of the request.                                                *)
(***************************************************************************)
C26_RecipientExists ==
    Forwarded => \E row \in accounts : row.name = request.bearer.claims.sub

\* a token whose sub is "bob" was forwarded while the account table holds
\* no account of that name
C26_ForwardedWithoutAccount ==
    /\ Forwarded
    /\ request.bearer.claims.sub = <<98, 111, 98>>
    /\ request.lookup = Ok(None)
    /\ \A row \in accounts : row.name # <<98, 111, 98>>

(***************************************************************************)
(* C30  The decision of as_sharing is independent of the token table: a    *)
(* step that changes the token table alone (the record of the token        *)
(* written, active or not) leaves the outcome of as_sharing for the        *)
(* request in hand what it was.                                            *)
(***************************************************************************)
C30_TokenTableIndependence ==
    [][(GateRequest /\ tokens' # tokens) =>
            AsSharingStored(request.bearer, request.provider, request.hasState,
                            request.dbUp)' = request.res]_vars

\* a token was forwarded while the token table holds its record with the
\* active flag false
C30_Witness ==
    /\ Forwarded
    /\ \E row \in tokens :
            /\ row.id = request.bearer.claims.jti
            /\ row.value = request.bearer
            /\ ~row.active

\* a token was forwarded while the token table is empty
C30_WitnessAbsent == Forwarded /\ tokens = {}

\* a token was forwarded while the token table holds its active record
C30_WitnessActive ==
    /\ Forwarded
    /\ \E row \in tokens : row.id = request.bearer.claims.jti /\ row.active

(***************************************************************************)
(* Profile issuance: post of routers/catalog/profile.rs in front of the    *)
(* account and token tables.                                               *)
(***************************************************************************)
MaxTokens == 2

\* the ids Uuid::new_v4 draws: "t1", "t2", "t3"
TokenIds == {<<116, 49>>, <<116, 50>>, <<116, 51>>}

\* where the database fails during a request: nowhere, at the selection of
\* the provider, at that of the recipient, at the upsert of the token with a
\* conflict, at the upsert with another error
DbFaults == {"none", "provider", "recipient", "conflict", "save"}

\* TokenEntity::new: the id parses as a uuid and the value, an encoded JWT,
\* is not empty
TokenEntityNew(id, value, active, created_by, created_for) ==
    Ok(TokenRow(id, value, active, created_by, created_for))

\* TokenEntity::save through PostgresUtility::error: the table after the
\* upsert, or the error of the database
TokenSave(row, db) ==
    CASE db = "conflict" -> Err("Conflict")
      [] db = "save"     -> Err("error occured while updating token")
      [] OTHER           -> Ok(TokenUpserted(row))

\* ProfilePost with a fault: the recipient need not have an account, the
\* token being recorded as created for the provider
ProfilePostAnyRecipient(providerName, recipientName, ttl, id, db) ==
    LET Refuse(e) == [res |-> Err(e), tokens |-> tokens]
        provider  == LoadByName(providerName, db # "provider")
        recipient == LoadByName(recipientName, db # "recipient")
    IN  IF ~AccountNameNew(providerName).ok THEN Refuse("ValidationFailed")
        ELSE IF ~provider.ok
             THEN Refuse("error occured while selecting provider from database")
        ELSE IF provider.val = None THEN Refuse("Unauthorized")
        ELSE IF ~AccountNameNew(recipientName).ok THEN Refuse("ValidationFailed")
        ELSE IF ~recipient.ok
             THEN Refuse("error occured while selecting recipient from database")
        ELSE LET profile == Issue(id, provider.val.some.name, recipientName, ttl)
             IN  IF ~profile.ok THEN Refuse("failed to create profile")
                 ELSE LET token == TokenEntityNew(id, profile.val.bearer_token, TRUE,
                                                  provider.val.some.id,
                                                  IF recipient.val = None
                                                  THEN provider.val.some.id
                                                  ELSE recipient.val.some.id)
                          saved == TokenSave(token.val, db)
                      IN  IF ~token.ok THEN Refuse("ValidationFailed")
                          ELSE IF ~saved.ok THEN Refuse(saved.err)
                          ELSE [res |-> Ok([status |-> 200, profile |-> profile.val]),
                                tokens |-> saved.val]

\* ProfilePost with a fault: the profile is returned whatever the upsert of
\* the token record answered
ProfilePostUnsaved(providerName, recipientName, ttl, id, db) ==
    LET Refuse(e) == [res |-> Err(e), tokens |-> tokens]
        provider  == LoadByName(providerName, db # "provider")
        recipient == LoadByName(recipientName, db # "recipient")
    IN  IF ~AccountNameNew(providerName).ok THEN Refuse("ValidationFailed")
        ELSE IF ~provider.ok
             THEN Refuse("error occured while selecting provider from database")
        ELSE IF provider.val = None THEN Refuse("Unauthorized")
        ELSE IF ~AccountNameNew(recipientName).ok THEN Refuse("ValidationFailed")
        ELSE IF ~recipient.ok
             THEN Refuse("error occured while selecting recipient from database")
        ELSE IF recipient.val = None THEN Refuse("Unauthorized")
        ELSE LET profile == Issue(id, provider.val.some.name,
                                  recipient.val.some.name, ttl)
             IN  IF ~profile.ok THEN Refuse("failed to create profile")
                 ELSE LET token == TokenEntityNew(id, profile.val.bearer_token, TRUE,
                                                  provider.val.some.id,
                                                  recipient.val.some.id)
                          saved == TokenSave(token.val, db)
                      IN  IF ~token.ok THEN Refuse("ValidationFailed")
                          ELSE [res |-> Ok([status |-> 200, profile |-> profile.val]),
                                tokens |-> IF saved.ok THEN saved.val ELSE tokens]

\* post of routers/catalog/profile.rs for POST /catalog/:provider/profile
\* with payload {recipient, ttl}; id is the uuid drawn, db the point where
\* the database fails.  The answer and the token table after the request.
ProfilePost(providerName, recipientName, ttl, id, db) ==
    LET Refuse(e) == [res |-> Err(e), tokens |-> tokens]
        provider  == LoadByName(providerName, db # "provider")
        recipient == LoadByName(recipientName, db # "recipient")
    IN  IF ~AccountNameNew(providerName).ok THEN Refuse("ValidationFailed")
        ELSE IF ~provider.ok
             THEN Refuse("error occured while selecting provider from database")
        ELSE IF provider.val = None THEN Refuse("Unauthorized")
        ELSE IF ~AccountNameNew(recipientName).ok THEN Refuse("ValidationFailed")
        ELSE IF ~recipient.ok
             THEN Refuse("error occured while selecting recipient from database")
        ELSE IF recipient.val = None THEN Refuse("Unauthorized")
        ELSE LET profile == Issue(id, provider.val.some.name,
                                  recipient.val.some.name, ttl)
             IN  IF ~profile.ok THEN Refuse("failed to create profile")
                 ELSE LET token == TokenEntityNew(id, profile.val.bearer_token, TRUE,
                                                  provider.val.some.id,
                                                  recipient.val.some.id)
                          saved == TokenSave(token.val, db)
                      IN  IF ~token.ok THEN Refuse("ValidationFailed")
                          ELSE IF ~saved.ok THEN Refuse(saved.err)
                          ELSE [res |-> Ok([status |-> 200, profile |-> profile.val]),
                                tokens |-> saved.val]

\* "acme", "jane" and the empty name
ProviderNames == Providers \cup {<<>>}

\* "bob", "jane" and the empty name
RecipientNames == Recipients \cup {<<106, 97, 110, 101>>}

InitProfile ==
    /\ now = [secs |-> StartClock, ms |-> 0]
    /\ cfg = [secret |-> <<107>>, hasher |-> Sha256Name,
              server_addr |-> ServerAddr, jwt_secret |-> JwtSecret]
    /\ SECRET = Uninit
    /\ HASHER = Uninit
    /\ signed = None
    /\ verified = None
    /\ call = None
    /\ issued = None
    /\ request = None
    /\ accounts \in SUBSET {BobRow, AcmeRow}
    /\ tokens = {}
    /\ threads = None

\* POST /catalog/:provider/profile is handled
PostProfile(providerName, recipientName, ttl, id, db) ==
    /\ request = None
    /\ Cardinality(tokens) < MaxTokens
    /\ id \notin {row.id : row \in tokens}
    /\ LET out == ProfilePost(providerName, recipientName, ttl, id, db)
       IN  /\ request' = [fn |-> "profile::post", provider |-> providerName,
                          recipient |-> recipientName, ttl |-> ttl, id |-> id,
                          db |-> db, at |-> now, res |-> out.res]
           /\ tokens' = out.tokens
    /\ UNCHANGED <<now, cfg, SECRET, HASHER, signed, verified, call, issued,
                   accounts, threads>>

NextProfile ==
    \/ \E providerName \in ProviderNames, recipientName \in RecipientNames,
          ttl \in JwtTtlInputs, id \in TokenIds, db \in DbFaults :
            PostProfile(providerName, recipientName, ttl, id, db)
    \/ Respond

SpecProfile == InitProfile /\ [][NextProfile]_vars

\* the step handles a request to POST /catalog/:provider/profile
PostStep ==
    /\ request = None
    /\ request' # None
    /\ request'.fn = "profile::post"

\* the request in hand was a POST /catalog/:provider/profile
PostRequest == request # None /\ request.fn = "profile::post"

\* the account table holds an account of the name
AccountExists(name) == \E row \in accounts : row.name = name

\* the answer carries a Profile
ReturnsProfile(res) == res.ok /\ res.val.status = 200

(***************************************************************************)
(* C23  as claimed: POST /catalog/:provider/profile answers Unauthorized   *)
(* and writes no token record when the provider account does not exist or  *)
(* when the recipient account does not exist, and answers ValidationFailed *)
(* and writes no token record when the provider name or the recipient name *)
(* is empty (the database answering the selections; an account "does not   *)
(* exist" when its name is not empty and no row has it).                   *)
(***************************************************************************)
C23_AsClaimed ==
    [][(PostStep /\ request'.db = "none") =>
        LET r == request'
            Missing(name) == name # <<>> /\ ~AccountExists(name)
        IN  /\ (Missing(r.provider) \/ Missing(r.recipient)) =>
                    r.res = Err("Unauthorized") /\ tokens' = tokens
            /\ (r.provider = <<>> \/ r.recipient = <<>>) =>
                    r.res = Err("ValidationFailed") /\ tokens' = tokens]_vars

(***************************************************************************)
(* C23  as amended: the checks are made in order.                          *)
(* POST /catalog/:provider/profile                                         *)
(* answers ValidationFailed for an empty provider name and Unauthorized    *)
(* for a provider name without an account; for a provider with an account  *)
(* it answers ValidationFailed for an empty recipient name and             *)
(* Unauthorized for a recipient name without an account (the database      *)
(* answering the selections).  In each of these cases no Profile is        *)
(* returned and the token table is left as it was.                         *)
(***************************************************************************)
C23_IssuancePrecondition ==
    [][PostStep =>
        LET r == request'
            providerMissing ==
                r.provider # <<>> /\ ~AccountExists(r.provider) /\ r.db # "provider"
            providerFound == AccountExists(r.provider) /\ r.db # "provider"
            recipientMissing ==
                /\ providerFound
                /\ r.recipient # <<>>
                /\ ~AccountExists(r.recipient)
                /\ r.db # "recipient"
        IN  /\ (providerMissing \/ recipientMissing) => r.res = Err("Unauthorized")
            /\ (r.provider = <<>> \/ (providerFound /\ r.recipient = <<>>)) =>
                    r.res = Err("ValidationFailed")
            /\ (~AccountExists(r.provider) \/ ~AccountExists(r.recipient)) =>
                    /\ ~ReturnsProfile(r.res)
                    /\ tokens' = tokens]_vars

\* a profile was asked of the provider "acme", who has an account, for the
\* recipient "jane", who has none: the answer was Unauthorized and the token
\* table, where an earlier profile is recorded, holds nothing of this request
C23_Witness ==
    /\ PostRequest
    /\ request.provider = <<97, 99, 109, 101>>
    /\ AccountExists(request.provider)
    /\ request.recipient = <<106, 97, 110, 101>>
    /\ request.ttl > 0
    /\ request.db = "none"
    /\ request.res = Err("Unauthorized")
    /\ tokens # {}
    /\ \A row \in tokens : row.id # request.id

\* a profile was asked of "jane", who has no account, for the empty
\* recipient name: the answer was Unauthorized
C23_WitnessOrder ==
    /\ PostRequest
    /\ request.provider = <<106, 97, 110, 101>>
    /\ request.recipient = <<>>
    /\ request.db = "none"
    /\ request.res = Err("Unauthorized")
    /\ \A row \in tokens : row.id # request.id

\* an empty recipient name was answered ValidationFailed
C23_WitnessEmpty ==
    /\ PostRequest
    /\ AccountExists(request.provider)
    /\ request.recipient = <<>>
    /\ request.res = Err("ValidationFailed")
    /\ \A row \in tokens : row.id # request.id

\* a provider without an account was answered Unauthorized
C23_WitnessProvider ==
    /\ PostRequest
    /\ request.provider = <<106, 97, 110, 101>>
    /\ request.db = "none"
    /\ request.res = Err("Unauthorized")
    /\ \A row \in tokens : row.id # request.id

(***************************************************************************)
(* C24  Issued profiles are recorded consistently: when                    *)
(* POST /catalog/:provider/profile returns a Profile, the token table      *)
(* holds a record whose id is the jti claim of the returned bearer token,  *)
(* whose value is that token, whose active flag is true and whose          *)
(* created_by and created_for are the ids of the accounts of the named     *)
(* provider and recipient; otherwise, and so when the save fails, the      *)
(* token table is left as it was.                                          *)
(***************************************************************************)
C24_RecordedConsistently ==
    [][PostStep =>
        LET r == request'
        IN  /\ ReturnsProfile(r.res) =>
                /\ r.db \notin {"conflict", "save"}
                /\ \E row \in tokens' :
                    /\ row.id = r.res.val.profile.bearer_token.claims.jti
                    /\ row.value = r.res.val.profile.bearer_token
                    /\ row.active = TRUE
                    /\ \E by \in accounts :
                            by.name = r.provider /\ row.created_by = by.id
                    /\ \E for \in accounts :
                            for.name = r.recipient /\ row.created_for = for.id
                    /\ tokens' = tokens \cup {row}
            /\ ~ReturnsProfile(r.res) => tokens' = tokens]_vars

\* a Profile was returned for "acme" and "bob" and its record is the second
\* in the token table
C24_Witness ==
    /\ PostRequest
    /\ ReturnsProfile(request.res)
    /\ Cardinality(tokens) = 2
    /\ \E row \in tokens :
            /\ row.id = request.id
            /\ row.value = request.res.val.profile.bearer_token
            /\ row.active
            /\ row.created_by = AcmeRow.id
            /\ row.created_for = BobRow.id

\* the save failed and no Profile was returned
C24_WitnessSaveFailed ==
    /\ PostRequest
    /\ AccountExists(request.provider)
    /\ AccountExists(request.recipient)
    /\ request.db = "save"
    /\ request.ttl > 0
    /\ request.res = Err("error occured while updating token")
    /\ \A row \in tokens : row.id # request.id

(***************************************************************************)
(* Login: post of routers/catalog/login.rs, run by request threads that    *)
(* interleave at its database calls (load_by_email, count_by_name_prefix,  *)
(* save).                                                                  *)
(***************************************************************************)
MaxLogins == 2

MaxAccounts == 2

LoginThreads == 1..MaxLogins

\* the ids Uuid::new_v4 draws: "u" followed by a byte
AccountIds == {<<117, n>> : n \in 1..(MaxAccounts + MaxLogins)}

\* #[validate(email)]: a user part, an '@' and a domain part
EmailNew(value) ==
    IF \E i \in 2..(Len(value) - 1) :
            value[i] = 64 /\ \A j \in 1..Len(value) : value[j] = 64 => j = i
    THEN Ok(value) ELSE Err("ValidationErrors")

\* #[validate(url)]: the value parses as a URL
ImageNew(value) == IF UrlParse(value).ok THEN Ok(value) ELSE Err("ValidationErrors")

\* #[validate(length(min = 1))] of Name, SocialPlatform, SocialId, SocialName
NonEmptyNew(value) == IF Len(value) >= 1 THEN Ok(value) ELSE Err("ValidationErrors")

\* char::is_whitespace, on ASCII
IsWhitespace(c) == c \in {9, 10, 11, 12, 13, 32}

\* social_name.split_whitespace().collect::<String>().to_lowercase()
NameBase(social_name) ==
    AsciiLower(SelectSeq(social_name, LAMBDA c : ~IsWhitespace(c)))

\* s LIKE pattern: '%' stands for any string, '_' for any character
RECURSIVE Like(_, _)
Like(s, pattern) ==
    IF pattern = <<>> THEN s = <<>>
    ELSE IF Head(pattern) = 37
         THEN \E k \in 0..Len(s) : Like(SubSeq(s, k + 1, Len(s)), Tail(pattern))
    ELSE /\ s # <<>>
         /\ Head(pattern) = 95 \/ Head(pattern) = Head(s)
         /\ Like(Tail(s), Tail(pattern))

\* AccountService::count_by_name_prefix: SELECT COUNT(1) FROM account WHERE
\* name LIKE CONCAT($1, '%')
CountByNamePrefix(prefix, dbUp) ==
    IF ~dbUp THEN Err("sqlx")
    ELSE Ok(Cardinality({row \in accounts : Like(row.name, prefix \o <<37>>)}))

\* Repository::select_by_email: SELECT ... FROM account WHERE email = $1
SelectByEmail(email, dbUp) ==
    IF ~dbUp THEN Err("sqlx")
    ELSE Ok(FetchOptional({row \in accounts : row.email = email}))

\* AccountEntity::load_by_email
LoadByEmail(email, dbUp) == SelectByEmail(email, dbUp)

\* AccountEntity::new with the id given
AccountEntityNew(id, name, email, image, social_platform, social_id, social_name) ==
    IF /\ NonEmptyNew(name).ok
       /\ EmailNew(email).ok
       /\ ImageNew(image).ok
       /\ NonEmptyNew(social_platform).ok
       /\ NonEmptyNew(social_id).ok
       /\ NonEmptyNew(social_name).ok
    THEN Ok(AccountRow(id, name, email, image, social_platform, social_id,
                       social_name))
    ELSE Err("ValidationErrors")

\* the account table with a constraint missing: names need not be unique
UniqueViolationEmailOnly(row) ==
    \E other \in accounts : other.id # row.id /\ other.email = row.email

\* the account table with a constraint missing: emails need not be unique
UniqueViolationNameOnly(row) ==
    \E other \in accounts : other.id # row.id /\ other.name = row.name

\* the constraints of the account table: the row would share its name or
\* its email with another row
UniqueViolation(row) ==
    \E other \in accounts :
        other.id # row.id /\ (other.name = row.name \/ other.email = row.email)

\* Repository::upsert of the account table: INSERT ... ON CONFLICT(id) DO
\* UPDATE SET every other column; the table after it, or the error
AccountUpsert(row, dbUp) ==
    IF ~dbUp THEN Err("error occured while updating account")
    ELSE IF UniqueViolation(row) THEN Err("Conflict")
    ELSE Ok({other \in accounts : other.id # row.id} \cup {row})

\* the payloads of POST /catalog/login
Payload(email, image, social_name) ==
    [email |-> email, image |-> image, social_platform |-> <<103>>,
     social_id |-> <<49>>, social_name |-> social_name]

\* payloads for the emails "b@h" and "c@h": each email with the image
\* "http://i" and the social name "B ob", "b@h" also with the image
\* "http://j" and the social name "Al", "c@h" also with "http://j" and
\* "b OB"; and payloads with the email "b", with the image "i" and with an
\* empty social name
Payloads ==
    {Payload(<<98, 64, 104>>, <<104, 116, 116, 112, 58, 47, 47, 105>>,
             <<66, 32, 111, 98>>),
     Payload(<<98, 64, 104>>, <<104, 116, 116, 112, 58, 47, 47, 106>>,
             <<65, 108>>),
     Payload(<<99, 64, 104>>, <<104, 116, 116, 112, 58, 47, 47, 105>>,
             <<66, 32, 111, 98>>),
     Payload(<<99, 64, 104>>, <<104, 116, 116, 112, 58, 47, 47, 106>>,
             <<98, 32, 79, 66>>),
     Payload(<<98>>, <<104, 116, 116, 112, 58, 47, 47, 105>>, <<65, 108>>),
     Payload(<<98, 64, 104>>, <<105>>, <<65, 108>>),
     Payload(<<98, 64, 104>>, <<104, 116, 116, 112, 58, 47, 47, 105>>, <<>>)}

IdleLogin ==
    [pc |-> "idle", payload |-> None, base |-> <<>>, entity |-> None,
     is_new |-> FALSE, res |-> None]

\* the ids of the rows and of the entities the threads hold
IdsInUse ==
    {row.id : row \in accounts}
    \cup {threads[t].entity.id : t \in {u \in LoginThreads : threads[u].entity # None}}

\* Uuid::new_v4: an id no row and no entity has
FreshId == CHOOSE id \in AccountIds : id \notin IdsInUse

InitLogin ==
    /\ now = [secs |-> StartClock, ms |-> 0]
    /\ cfg = [secret |-> <<107>>, hasher |-> Sha256Name,
              server_addr |-> ServerAddr, jwt_secret |-> JwtSecret]
    /\ SECRET = Uninit
    /\ HASHER = Uninit
    /\ signed = None
    /\ verified = None
    /\ call = None
    /\ issued = None
    /\ request = None
    /\ accounts = {}
    /\ tokens = {}
    /\ threads = [t \in LoginThreads |-> IdleLogin]

\* the thread answers the request
Answer(th, res) == [th EXCEPT !.pc = "done", !.res = res]

\* Relogin with a fault: the social fields of the payload are written to the
\* account as well
ReloginSocial(account, payload) ==
    [account EXCEPT !.image = payload.image,
                    !.social_platform = payload.social_platform,
                    !.social_id = payload.social_id,
                    !.social_name = payload.social_name]

\* account.set_image(image) on the account load_by_email returned
Relogin(account, payload) == [account EXCEPT !.image = payload.image]

\* post up to the answer of load_by_email (login.rs 54-72)
LoginLoad(t, payload, dbUp) ==
    /\ threads[t].pc = "idle"
    /\ \/ Cardinality(accounts) < MaxAccounts
       \/ \E row \in accounts : row.email = payload.email
    /\ LET th      == [IdleLogin EXCEPT !.payload = payload]
           account == LoadByEmail(payload.email, dbUp)
       IN  threads' = [threads EXCEPT ![t] =
               IF ~EmailNew(payload.email).ok \/ ~ImageNew(payload.image).ok
               THEN Answer(th, Err("ValidationFailed"))
               ELSE IF ~account.ok THEN Answer(th, Err("failed to login"))
               ELSE IF account.val # None
               THEN [th EXCEPT
                        !.pc = "save",
                        !.entity = Relogin(account.val.some, payload)]
               ELSE [th EXCEPT !.pc = "count", !.is_new = TRUE,
                               !.base = NameBase(payload.social_name)]]
    /\ UNCHANGED <<now, cfg, SECRET, HASHER, signed, verified, call, issued,
                   request, accounts, tokens>>

\* post from the answer of load_by_email to that of count_by_name_prefix
\* and the construction of the entity (login.rs 73-98)
LoginCount(t, dbUp) ==
    /\ threads[t].pc = "count"
    /\ LET th     == threads[t]
           count  == CountByNamePrefix(th.base, dbUp)
           entity == AccountEntityNew(FreshId, th.base \o Decimal(count.val),
                                      th.payload.email, th.payload.image,
                                      th.payload.social_platform,
                                      th.payload.social_id,
                                      th.payload.social_name)
       IN  threads' = [threads EXCEPT ![t] =
               IF ~count.ok THEN Answer(th, Err("failed to login"))
               ELSE IF ~entity.ok THEN Answer(th, Err("ValidationFailed"))
               ELSE [th EXCEPT !.pc = "save", !.entity = entity.val]]
    /\ UNCHANGED <<now, cfg, SECRET, HASHER, signed, verified, call, issued,
                   request, accounts, tokens>>

\* post from account.save to the answer (login.rs 99-127)
LoginSave(t, dbUp) ==
    /\ threads[t].pc = "save"
    /\ LET th    == threads[t]
           saved == AccountUpsert(th.entity, dbUp)
       IN  /\ accounts' = IF saved.ok THEN saved.val ELSE accounts
           /\ threads' = [threads EXCEPT ![t] =
                  IF saved.ok
                  THEN Answer(th, Ok([status  |-> IF th.is_new THEN 201 ELSE 200,
                                      account |-> th.entity]))
                  ELSE IF saved.err = "Conflict" THEN Answer(th, Err("Conflict"))
                  ELSE Answer(th, Err("error occured while updating account"))]
    /\ UNCHANGED <<now, cfg, SECRET, HASHER, signed, verified, call, issued,
                   request, tokens>>

\* the answer is sent and the thread takes the next request
LoginRespond(t) ==
    /\ threads[t].pc = "done"
    /\ threads' = [threads EXCEPT ![t] = IdleLogin]
    /\ UNCHANGED <<now, cfg, SECRET, HASHER, signed, verified, call, issued,
                   request, accounts, tokens>>

NextLogin ==
    \/ \E t \in LoginThreads, payload \in Payloads, dbUp \in BOOLEAN :
            LoginLoad(t, payload, dbUp)
    \/ \E t \in LoginThreads, dbUp \in BOOLEAN : LoginCount(t, dbUp)
    \/ \E t \in LoginThreads, dbUp \in BOOLEAN : LoginSave(t, dbUp)
    \/ \E t \in LoginThreads : LoginRespond(t)

SpecLogin == InitLogin /\ [][NextLogin]_vars

\* the step is the save of thread t and its answer
SaveStep(t) == threads[t].pc = "save" /\ threads'[t].pc = "done"

\* the step is the load_by_email of thread t for a payload that passes the
\* validation, the database answering
LoadStep(t) ==
    /\ threads[t].pc = "idle"
    /\ threads'[t].pc \in {"save", "count"}

\* the rows with the email
RowsOfEmail(email) == {row \in accounts : row.email = email}

\* thread t answered with the status
Answered(t, status) ==
    /\ threads[t].pc = "done"
    /\ threads[t].res.ok
    /\ threads[t].res.val.status = status

(***************************************************************************)
(* C22  Login for an email that has an account is answered 200 and changes *)
(* the image of that account and nothing else: its id, name, email and     *)
(* social fields stay what they were, whatever the payload carries, and no *)
(* account is created.  Login for an email without an account is answered  *)
(* 201 and creates exactly one account, of that email.  (The payload being *)
(* valid and the save succeeding; any other answer leaves the table as it  *)
(* was.)                                                                   *)
(***************************************************************************)
C22_LoginFrame ==
    [][/\ \A t \in LoginThreads :
            /\ LoadStep(t) =>
                    threads'[t].is_new = (RowsOfEmail(threads'[t].payload.email) = {})
            /\ SaveStep(t) =>
                LET th  == threads[t]
                    res == threads'[t].res
                IN  /\ (~th.is_new /\ res.ok) =>
                        /\ res.val.status = 200
                        /\ \E old \in RowsOfEmail(th.payload.email) :
                              accounts' = (accounts \ {old})
                                  \cup {[old EXCEPT !.image = th.payload.image]}
                    /\ (th.is_new /\ res.ok) =>
                        /\ res.val.status = 201
                        /\ \E row \in accounts' :
                              /\ row.email = th.payload.email
                              /\ row.id \notin {other.id : other \in accounts}
                              /\ accounts' = accounts \cup {row}
                              /\ Cardinality(accounts') = Cardinality(accounts) + 1
                    /\ ~th.is_new => res # Err("Conflict")
                    /\ ~res.ok => accounts' = accounts
       /\ accounts' # accounts => \E t \in LoginThreads : SaveStep(t)]_vars

\* the account of "b@h", created with the image "http://i" and the social
\* name "B ob", logged in with the image "http://j" and the social name
\* "Al": the answer was 200 and the account has the new image and the old
\* social name
C22_Witness ==
    /\ threads # None
    /\ \E t \in LoginThreads :
        /\ Answered(t, 200)
        /\ threads[t].payload.social_name = <<65, 108>>
        /\ \E row \in accounts :
            /\ row.email = threads[t].payload.email
            /\ row.image = threads[t].payload.image
            /\ row.image = <<104, 116, 116, 112, 58, 47, 47, 106>>
            /\ row.social_name = <<66, 32, 111, 98>>
            /\ row.name = <<98, 111, 98, 48>>
        /\ Cardinality(accounts) = 1

\* a login for an email without an account was answered 201 and the table
\* holds its account
C22_WitnessCreated ==
    /\ threads # None
    /\ \E t \in LoginThreads :
        /\ Answered(t, 201)
        /\ threads[t].res.val.account \in accounts
        /\ Cardinality(accounts) = 2

C28_WitnessSequence ==
    /\ {row.name : row \in accounts} = {<<98, 111, 98, 48>>, <<98, 111, 98, 49>>}

====
